---------------------------- MODULE Spec2Model ----------------------------
(***************************************************************************)
(* Model of the Math Quiz Master application (src/app.py): the session    *)
(* state kept in st.session_state, the page handlers, and the three-stage *)
(* report pipeline run by the SUBMIT QUIZ button.                          *)
(*                                                                         *)
(* Text is modelled as a sequence of one-character strings, so that        *)
(* strip(), lower(), upper() and the substring test are computed.          *)
(***************************************************************************)
EXTENDS Integers, Sequences, FiniteSets, TLC

(***************************************************************************)
(* Bounds of the model.                                                    *)
(***************************************************************************)
MaxQuestions == 2      \* longest question list the store returns
MaxTime == 1           \* the wall clock runs 0..MaxTime
MaxChanges == 1        \* cap on option_changes per question
MaxQuizzes == 2        \* quizzes started in one session

(***************************************************************************)
(* Text helpers: str.strip(), str.lower(), str.upper(), `a in b`.          *)
(***************************************************************************)
Whitespace == {" ", "\n", "\t"}

UpperLetters == <<"C", "O", "R", "E", "T", "I", "N", "X", "W", "G">>
LowerLetters == <<"c", "o", "r", "e", "t", "i", "n", "x", "w", "g">>

LowerChar(c) ==
    IF \E i \in 1..Len(UpperLetters) : UpperLetters[i] = c
    THEN LowerLetters[CHOOSE i \in 1..Len(UpperLetters) : UpperLetters[i] = c]
    ELSE c

UpperChar(c) ==
    IF \E i \in 1..Len(LowerLetters) : LowerLetters[i] = c
    THEN UpperLetters[CHOOSE i \in 1..Len(LowerLetters) : LowerLetters[i] = c]
    ELSE c

Lower(s) == [i \in 1..Len(s) |-> LowerChar(s[i])]

Upper(s) == [i \in 1..Len(s) |-> UpperChar(s[i])]

RECURSIVE LStrip(_)
LStrip(s) ==
    IF s # <<>> /\ Head(s) \in Whitespace THEN LStrip(Tail(s)) ELSE s

RECURSIVE RStrip(_)
RStrip(s) ==
    IF s # <<>> /\ s[Len(s)] \in Whitespace
    THEN RStrip(SubSeq(s, 1, Len(s) - 1))
    ELSE s

Strip(s) == RStrip(LStrip(s))

\* Python's `needle in hay` for strings.
Contains(hay, needle) ==
    \E i \in 0..(Len(hay) - Len(needle)) :
        SubSeq(hay, i + 1, i + Len(needle)) = needle

\* Python truthiness of a str.
NonEmpty(s) == s # <<>>

CORRECT == <<"C", "O", "R", "R", "E", "C", "T">>

(***************************************************************************)
(* The Correctness Judge, check_answer_with_llm.  `api_key` is whether     *)
(* GEMINI_API_KEY is set; `outcome` is what the service does when called:  *)
(* it raises, or returns response.text.                                    *)
(* The result records the verdict and which path produced it.              *)
(***************************************************************************)
\* FallbackCompare comparing the texts as they are.
FallbackCompare_exact(student_answer, correct_answer) ==
    student_answer = correct_answer

FallbackCompare(student_answer, correct_answer) ==
    Lower(Strip(student_answer)) = Lower(Strip(correct_answer))

\* ResponseVerdict without the upper-casing.
ResponseVerdict_cased(text) == Contains(Strip(text), CORRECT)

ResponseVerdict(text) == Contains(Upper(Strip(text)), CORRECT)

\* JudgeOnFailure without the except clause: the failure propagates.
JudgeOnFailure_uncaught(student_answer, correct_answer) ==
    [verdict |-> FALSE, called |-> TRUE, fallback |-> FALSE, raised |-> TRUE]

\* What the except clause of check_answer_with_llm does with a failed call.
JudgeOnFailure(student_answer, correct_answer) ==
    [verdict |-> FallbackCompare(student_answer, correct_answer),
     called |-> TRUE, fallback |-> TRUE, raised |-> FALSE]

check_answer_with_llm(student_answer, correct_answer, api_key, outcome) ==
    IF ~api_key
    THEN [verdict |-> FallbackCompare(student_answer, correct_answer),
          called |-> FALSE, fallback |-> TRUE, raised |-> FALSE]
    ELSE IF outcome.raises
         THEN JudgeOnFailure(student_answer, correct_answer)
         ELSE [verdict |-> ResponseVerdict(outcome.text),
               called |-> TRUE, fallback |-> FALSE, raised |-> FALSE]


(***************************************************************************)
(* Work Transcription, process_student_work.  `ocr` is what the decoding,  *)
(* the temp file and the vision service do when reached: the step that     *)
(* fails (fail_at, "none" when all succeed) and response_ocr.text.         *)
(* temp_left tells whether temp_<q_id>.jpg exists when the function        *)
(* returns; called tells whether the service was contacted.                *)
(***************************************************************************)
TypedWorkLabel == <<"**Typed Work:**\n">>
OcrLabel == <<"\n\n**Handwritten Work (OCR):**\n">>

TypedWorkOf(responses, q_id) ==
    IF q_id \in DOMAIN responses THEN responses[q_id].typed_work ELSE <<>>

process_student_work(q_id, responses, uploaded_files, api_key, ocr) ==
    LET typed_work == TypedWorkOf(responses, q_id)
        nothing == [handwritten_work_ocr |-> <<>>, combined_work |-> typed_work,
                    temp_created |-> FALSE, temp_left |-> FALSE,
                    called |-> FALSE, warned |-> FALSE, raised |-> FALSE]
    IN  IF q_id \notin uploaded_files \/ ~api_key
        THEN nothing
        ELSE CASE ocr.fail_at \in {"decode", "write"} ->
                    [nothing EXCEPT !.warned = TRUE]
               [] ocr.fail_at \in {"upload", "model"} ->
                    [nothing EXCEPT !.warned = TRUE, !.temp_created = TRUE,
                                    !.temp_left = TRUE, !.called = TRUE]
               [] ocr.fail_at = "remove" ->
                    [nothing EXCEPT !.warned = TRUE, !.temp_created = TRUE,
                                    !.temp_left = TRUE, !.called = TRUE,
                                    !.handwritten_work_ocr = Strip(ocr.text)]
               [] OTHER ->
                    LET handwritten_ocr == Strip(ocr.text)
                    IN  [nothing EXCEPT
                           !.temp_created = TRUE,
                           !.called = TRUE,
                           !.handwritten_work_ocr = handwritten_ocr,
                           !.combined_work =
                               IF NonEmpty(typed_work) /\ NonEmpty(handwritten_ocr)
                               THEN TypedWorkLabel \o typed_work \o OcrLabel
                                        \o handwritten_ocr
                               ELSE IF NonEmpty(handwritten_ocr)
                                    THEN handwritten_ocr
                                    ELSE typed_work]

(***************************************************************************)
(* extract_answer_from_json on texts.  A parsed document is one of the     *)
(* values json.loads builds; a text is a sequence of characters.           *)
(***************************************************************************)
PyNone == [t |-> "null", v |-> 0]
PyBool(b) == [t |-> "bool", v |-> b]
PyInt(n) == [t |-> "int", v |-> n]
PyText(s) == [t |-> "str", v |-> s]
PyList(items) == [t |-> "list", v |-> items]
\* A dict is the sequence of its <<key, value>> pairs in insertion order.
PyDict(pairs) == [t |-> "dict", v |-> pairs]

DecimalDigits == <<"0", "1", "2", "3", "4", "5", "6", "7", "8", "9">>

\* str(n) and json.dumps(n) of an int.
RECURSIVE IntText(_)
IntText(n) ==
    IF n < 0 THEN <<"-">> \o IntText(0 - n)
    ELSE IF n < 10 THEN <<DecimalDigits[n + 1]>>
         ELSE IntText(n \div 10) \o <<DecimalDigits[(n % 10) + 1]>>

\* sep.join(parts)
RECURSIVE Join(_, _)
Join(parts, sep) ==
    IF parts = <<>> THEN <<>>
    ELSE IF Len(parts) = 1 THEN parts[1]
         ELSE parts[1] \o sep \o Join(Tail(parts), sep)

\* The body of a quoted literal: the quote character, the backslash and the
\* newline are written as escapes.
RECURSIVE EscapeFor(_, _)
EscapeFor(s, quote) ==
    IF s = <<>> THEN <<>>
    ELSE LET c == Head(s)
             out == IF c = quote THEN <<"\\", quote>>
                    ELSE IF c = "\\" THEN <<"\\", "\\">>
                         ELSE IF c = "\n" THEN <<"\\", "n">>
                              ELSE <<c>>
         IN  out \o EscapeFor(Tail(s), quote)

HasChar(s, c) == \E i \in 1..Len(s) : s[i] = c

\* repr() of a str: single quotes, unless the text has a single quote and
\* no double quote.
StrRepr(s) ==
    IF HasChar(s, "'") /\ ~HasChar(s, "\"")
    THEN <<"\"">> \o EscapeFor(s, "\"") \o <<"\"">>
    ELSE <<"'">> \o EscapeFor(s, "'") \o <<"'">>

\* repr() of a parsed document.
RECURSIVE PyRepr(_)
PyRepr(value) ==
    CASE value.t = "null" -> <<"N", "o", "n", "e">>
      [] value.t = "bool" -> IF value.v THEN <<"T", "r", "u", "e">>
                             ELSE <<"F", "a", "l", "s", "e">>
      [] value.t = "int" -> IntText(value.v)
      [] value.t = "str" -> StrRepr(value.v)
      [] value.t = "list" ->
            <<"[">>
            \o Join([i \in 1..Len(value.v) |-> PyRepr(value.v[i])], <<",", " ">>)
            \o <<"]">>
      [] value.t = "dict" ->
            <<"{">>
            \o Join([i \in 1..Len(value.v) |->
                        StrRepr(value.v[i][1]) \o <<":", " ">>
                        \o PyRepr(value.v[i][2])], <<",", " ">>)
            \o <<"}">>

\* str(value) taken to be repr(value), quotes of a str included.
PyStr_repr(value) == PyRepr(value)

\* str(value): a str is itself, anything else is its repr.
PyStr(value) == IF value.t = "str" THEN value.v ELSE PyRepr(value)

\* json.dumps of a str.
JsonStringLiteral(s) == <<"\"">> \o EscapeFor(s, "\"") \o <<"\"">>

\* json.dumps(value) with the default separators.
RECURSIVE json_dumps(_)
json_dumps(value) ==
    CASE value.t = "null" -> <<"n", "u", "l", "l">>
      [] value.t = "bool" -> IF value.v THEN <<"t", "r", "u", "e">>
                             ELSE <<"f", "a", "l", "s", "e">>
      [] value.t = "int" -> IntText(value.v)
      [] value.t = "str" -> JsonStringLiteral(value.v)
      [] value.t = "list" ->
            <<"[">>
            \o Join([i \in 1..Len(value.v) |-> json_dumps(value.v[i])], <<",", " ">>)
            \o <<"]">>
      [] value.t = "dict" ->
            <<"{">>
            \o Join([i \in 1..Len(value.v) |->
                        JsonStringLiteral(value.v[i][1]) \o <<":", " ">>
                        \o json_dumps(value.v[i][2])], <<",", " ">>)
            \o <<"}">>

\* The dict keys the function looks for, and one it does not.
Keys ==
    [answer |-> <<"a", "n", "s", "w", "e", "r">>,
     value |-> <<"v", "a", "l", "u", "e">>,
     number |-> <<"n", "u", "m", "b", "e", "r">>,
     numerical_value |->
        <<"n", "u", "m", "e", "r", "i", "c", "a", "l", "_", "v", "a", "l", "u", "e">>,
     result |-> <<"r", "e", "s", "u", "l", "t">>,
     unit |-> <<"u", "n", "i", "t">>]

\* The documents final_answer_json is drawn from.
Payloads ==
    << PyNone, PyBool(TRUE), PyBool(FALSE), PyInt(0), PyInt(12), PyInt(0 - 3),
       PyText(<<>>), PyText(<<"x">>), PyText(<<"1", "/", "2">>),
       PyText(<<"a", "\"", "b">>), PyText(<<"a", "\\", "n">>),
       PyText(<<"i", "t", "'", "s">>), PyText(<<"5">>),
       PyText(<<"[", "1", "]">>),
       PyText(json_dumps(PyDict(<< <<Keys.answer, PyInt(1)>> >>))),
       PyList(<<>>), PyList(<<PyInt(1)>>), PyList(<<PyInt(1), PyInt(2)>>),
       PyList(<<PyText(<<"x">>)>>),
       PyList(<<PyList(<<PyInt(1), PyInt(2)>>)>>),
       PyDict(<<>>),
       PyDict(<< <<Keys.answer, PyInt(1)>> >>),
       PyDict(<< <<Keys.value, PyText(<<"x">>)>> >>),
       PyDict(<< <<Keys.value, PyInt(2)>>, <<Keys.answer, PyInt(1)>> >>),
       PyDict(<< <<Keys.result, PyInt(7)>>, <<Keys.number, PyInt(5)>> >>),
       PyDict(<< <<Keys.numerical_value, PyInt(2)>> >>),
       PyDict(<< <<Keys.unit, PyText(<<"x">>)>> >>),
       PyDict(<< <<Keys.answer, PyNone>> >>),
       PyDict(<< <<Keys.answer, PyList(<<PyInt(1)>>)>> >>),
       PyDict(<< <<Keys.answer, PyText(<<>>)>> >>) >>

\* The body of a JSON string literal, decoded; a bare quote, a control
\* character or an unknown escape makes the text malformed.
RECURSIVE JsonUnescape(_)
JsonUnescape(s) ==
    IF s = <<>> THEN [ok |-> TRUE, value |-> <<>>]
    ELSE IF Head(s) = "\\"
         THEN IF Len(s) < 2 \/ s[2] \notin {"\"", "\\", "/", "n", "t"}
              THEN [ok |-> FALSE, value |-> <<>>]
              ELSE LET c == CASE s[2] = "n" -> "\n"
                              [] s[2] = "t" -> "\t"
                              [] OTHER -> s[2]
                       rest == JsonUnescape(SubSeq(s, 3, Len(s)))
                   IN  [ok |-> rest.ok, value |-> <<c>> \o rest.value]
         ELSE IF Head(s) \in {"\"", "\n", "\t"}
              THEN [ok |-> FALSE, value |-> <<>>]
              ELSE LET rest == JsonUnescape(Tail(s))
                   IN  [ok |-> rest.ok, value |-> <<Head(s)>> \o rest.value]

\* json.loads(text): a string literal is decoded; any other text is a
\* document when it is the encoding of one of Payloads, and raises otherwise.
json_loads(text) ==
    LET doc == Strip(text)
    IN  IF Len(doc) >= 2 /\ doc[1] = "\"" /\ doc[Len(doc)] = "\""
        THEN LET body == JsonUnescape(SubSeq(doc, 2, Len(doc) - 1))
             IN  [ok |-> body.ok, value |-> PyText(body.value)]
        ELSE IF \E i \in 1..Len(Payloads) : json_dumps(Payloads[i]) = doc
             THEN [ok |-> TRUE,
                   value |-> Payloads[CHOOSE i \in 1..Len(Payloads) :
                                          json_dumps(Payloads[i]) = doc]]
             ELSE [ok |-> FALSE, value |-> PyNone]

DictHas(dict, key) == \E i \in 1..Len(dict.v) : dict.v[i][1] = key

DictGet(dict, key) ==
    dict.v[CHOOSE i \in 1..Len(dict.v) : dict.v[i][1] = key][2]

\* What extract_answer_from_json returns: None, or a str.
NoAnswer == [none |-> TRUE, text |-> <<>>]
Answer(text) == [none |-> FALSE, text |-> text]

AnswerTypes == {"integer", "float", "expression", "text"}

NumericKeys == <<Keys.number, Keys.numerical_value, Keys.result>>

\* Lines 119-141.
extract_answer_from_json(answer_json_str, answer_type) ==
    IF answer_json_str = <<>> THEN NoAnswer
    ELSE LET parsed == json_loads(answer_json_str)
             answer_data == parsed.value
         IN  IF ~parsed.ok THEN Answer(answer_json_str)
             ELSE IF answer_data.t = "dict" /\ DictHas(answer_data, Keys.answer)
             THEN Answer(PyStr(DictGet(answer_data, Keys.answer)))
             ELSE IF answer_data.t = "dict" /\ DictHas(answer_data, Keys.value)
             THEN Answer(PyStr(DictGet(answer_data, Keys.value)))
             ELSE IF /\ answer_data.t = "dict"
                     /\ answer_type \in {"integer", "float"}
                     /\ \E k \in 1..Len(NumericKeys) :
                            DictHas(answer_data, NumericKeys[k])
             THEN LET first == CHOOSE k \in 1..Len(NumericKeys) :
                                  /\ DictHas(answer_data, NumericKeys[k])
                                  /\ \A j \in 1..(k - 1) :
                                        ~DictHas(answer_data, NumericKeys[j])
                  IN  Answer(PyStr(DictGet(answer_data, NumericKeys[first])))
             ELSE IF answer_data.t = "list" /\ answer_data.v # <<>>
             THEN Answer(PyStr(answer_data.v[1]))
             ELSE Answer(PyStr(answer_data))

(***************************************************************************)
(* The question stores as get_questions_from_db sees them.  A question     *)
(* carries the fields the pipeline reads.                                  *)
(***************************************************************************)
Topics == {"Algebra", "Calculus"}

Question(id, difficulty, tags, answer) ==
    [question_id |-> id, difficulty |-> difficulty, concept_tags |-> tags,
     correct_answer |-> answer]

\* Rows of the olympiad table (line 186): id, the tag made of subfield,
\* final_answer_json, answer_type and the solution text, of which only the
\* length is read.
OlympiadTable ==
    { [id |-> "OLY_1", tag |-> "ALGEBRA", answer_type |-> "expression",
       final_answer_json |-> JsonStringLiteral(<<"1", "/", "2">>),
       has_solution |-> TRUE, sol_len |-> 199],
      [id |-> "OLY_2", tag |-> "ALGEBRA", answer_type |-> "text",
       final_answer_json |-> JsonStringLiteral(<<"X">>),
       has_solution |-> TRUE, sol_len |-> 501],
      [id |-> "OLY_3", tag |-> "ALGEBRA", answer_type |-> "integer",
       final_answer_json |-> <<>>,
       has_solution |-> TRUE, sol_len |-> 300],
      [id |-> "OLY_4", tag |-> "GEOMETRY", answer_type |-> "text",
       final_answer_json |-> JsonStringLiteral(<<>>),
       has_solution |-> FALSE, sol_len |-> 0],
      [id |-> "OLY_5", tag |-> "GEOMETRY", answer_type |-> "integer",
       final_answer_json |->
           json_dumps(PyDict(<< <<Keys.answer, PyText(<<>>)>> >>)),
       has_solution |-> TRUE, sol_len |-> 10] }

\* Lines 193-199: difficulty from the length of the solution text; an absent
\* or empty solution leaves "medium".
Difficulty(has_solution, sol_len) ==
    IF has_solution /\ sol_len > 0
    THEN IF sol_len < 200 THEN "easy"
         ELSE IF sol_len > 500 THEN "hard" ELSE "medium"
    ELSE "medium"

\* Lines 188-214: the question made of a row.
OlympiadQuestion(row) ==
    Question(row.id, Difficulty(row.has_solution, row.sol_len), <<row.tag>>,
             extract_answer_from_json(row.final_answer_json,
                                      row.answer_type).text)

\* RowKept keeping every row.
RowKept_all(row) == TRUE

\* Lines 190-191: if not correct_answer: continue.
RowKept(row) ==
    LET correct_answer == extract_answer_from_json(row.final_answer_json,
                                                   row.answer_type)
    IN  ~correct_answer.none /\ NonEmpty(correct_answer.text)

OlympiadRows == { OlympiadQuestion(row) : row \in { r \in OlympiadTable : RowKept(r) } }

\* Rows of calculus.db with the difficulty and the tags lines 233-243 give
\* them; a row without expected_answer is skipped (lines 230-231).
CalculusTable ==
    { [id |-> "CALC_1", difficulty |-> "medium",
       tags |-> <<"CALCULUS", "GENERAL">>,
       expected_answer |-> <<"1", "/", "2">>],
      [id |-> "CALC_2", difficulty |-> "easy",
       tags |-> <<"CALCULUS", "GENERAL">>,
       expected_answer |-> <<>>] }

CalculusRows ==
    { Question(row.id, row.difficulty, row.tags, row.expected_answer) :
        row \in { r \in CalculusTable : NonEmpty(r.expected_answer) } }

StoreRows(topic) == IF topic = "Calculus" THEN CalculusRows ELSE OlympiadRows

QIds == { r.question_id : r \in OlympiadRows \cup CalculusRows }

\* Sequences of distinct elements of S, of length 0..n.
DistinctSeqs(S, n) ==
    UNION { { s \in [1..k -> S] : \A i, j \in 1..k : s[i] = s[j] => i = j }
            : k \in 0..n }

\* The lists get_questions_from_db can return: a shuffle of at most
\* num_questions rows with a non-empty answer, or [] when the store fails.
get_questions_from_db(topic, num_questions) ==
    LET limit == IF num_questions < MaxQuestions THEN num_questions
                 ELSE MaxQuestions
    IN  DistinctSeqs(StoreRows(topic), limit)

(***************************************************************************)
(* State.                                                                  *)
(***************************************************************************)
VARIABLES
    page, selected_topic, num_questions, questions, current_question_idx,
    responses, start_time, question_start_times, first_attempt_times,
    option_changes, uploaded_files,
    stage1_report, stage2_report, final_report, report_file,
    report_files, temp_files, clock, api_key, notice, quizzes_started,
    pc, loop_idx, questions_data, counts, report_now,
    local_stage1, local_stage2, local_stage3, call_log,
    probe

session == <<page, selected_topic, num_questions, questions,
             current_question_idx, responses, start_time,
             question_start_times, first_attempt_times, option_changes,
             uploaded_files>>
stored == <<stage1_report, stage2_report, final_report, report_file>>
disk == <<report_files, temp_files>>
locals == <<pc, loop_idx, questions_data, counts, report_now,
            local_stage1, local_stage2, local_stage3, call_log>>
env == <<clock, api_key, quizzes_started, probe>>
vars == <<session, stored, disk, env, notice, locals>>

NoTopic == "None"
NoTime == -1
DefaultNumQuestions == 10

ZeroCounts == [correct_count |-> 0, incorrect_count |-> 0, unattempted_count |-> 0]

\* The locals of a submit run before it starts.
LocalsIdle ==
    /\ pc = "idle"
    /\ loop_idx = 0
    /\ questions_data = <<>>
    /\ counts = ZeroCounts
    /\ report_now = NoTime
    /\ local_stage1 = <<>>
    /\ local_stage2 = <<>>
    /\ local_stage3 = <<>>
    /\ call_log = <<>>

LocalsReset ==
    /\ pc' = "idle"
    /\ loop_idx' = 0
    /\ questions_data' = <<>>
    /\ counts' = ZeroCounts
    /\ report_now' = NoTime
    /\ local_stage1' = <<>>
    /\ local_stage2' = <<>>
    /\ local_stage3' = <<>>
    /\ call_log' = <<>>

\* initialize_session_state; the environment (credential, clock) is free.
SessionInit ==
    /\ page = "home"
    /\ selected_topic = NoTopic
    /\ num_questions = DefaultNumQuestions
    /\ questions = <<>>
    /\ current_question_idx = 0
    /\ responses = <<>>
    /\ start_time = NoTime
    /\ question_start_times = <<>>
    /\ first_attempt_times = <<>>
    /\ option_changes = <<>>
    /\ uploaded_files = {}
    /\ stage1_report = <<>>
    /\ stage2_report = <<>>
    /\ final_report = <<>>
    /\ report_file = <<>>
    /\ report_files = {}
    /\ temp_files = {}
    /\ clock = 0
    /\ api_key \in BOOLEAN
    /\ notice = "none"
    /\ quizzes_started = 0
    /\ LocalsIdle

\* `probe` holds the arguments and the result of a function applied on its
\* own; the session specifications leave it empty.
Init == SessionInit /\ probe = <<>>

(***************************************************************************)
(* Dictionaries keyed by question id are functions on the keys present.    *)
(***************************************************************************)
Put(dict, key, value) == (key :> value) @@ dict

Get(dict, key, default) == IF key \in DOMAIN dict THEN dict[key] ELSE default

EmptyResponse == [final_answer |-> <<>>, changed_answer |-> FALSE, typed_work |-> <<>>]

CurrentQId == questions[current_question_idx + 1].question_id

\* Lines 503-504 of render_quiz_page for the question at index idx of qs.
ShowQuestion(times, qs, idx) ==
    LET q_id == qs[idx + 1].question_id
    IN  IF q_id \in DOMAIN times THEN times ELSE Put(times, q_id, clock)

(***************************************************************************)
(* Home page.                                                              *)
(***************************************************************************)
Idle == pc = "idle"

\* A topic button of render_home_page.
SelectTopic(topic) ==
    /\ Idle /\ page = "home"
    /\ selected_topic' = topic
    /\ notice' = "none"
    /\ UNCHANGED <<page, num_questions, questions, current_question_idx,
                   responses, start_time, question_start_times,
                   first_attempt_times, option_changes, uploaded_files>>
    /\ UNCHANGED <<stored, disk, env, locals>>

\* StartQuizWith setting start_time before looking at the result.
StartQuizWith_resetting(loaded) ==
    /\ questions' = loaded
    /\ start_time' = clock
    /\ IF loaded = <<>>
       THEN /\ notice' = "load_failed"
            /\ UNCHANGED <<page, current_question_idx, responses,
                           question_start_times, first_attempt_times,
                           option_changes>>
       ELSE /\ notice' = "none"
            /\ current_question_idx' = 0
            /\ responses' = <<>>
            /\ question_start_times' = ShowQuestion(<<>>, loaded, 0)
            /\ first_attempt_times' = <<>>
            /\ option_changes' = <<>>
            /\ page' = "quiz"

\* What START QUIZ does once get_questions_from_db has returned `loaded`;
\* the rerun that follows shows question 0.
StartQuizWith(loaded) ==
    /\ questions' = loaded
    /\ IF loaded = <<>>
       THEN /\ notice' = "load_failed"
            /\ UNCHANGED <<page, current_question_idx, responses, start_time,
                           question_start_times, first_attempt_times,
                           option_changes>>
       ELSE /\ notice' = "none"
            /\ start_time' = clock
            /\ current_question_idx' = 0
            /\ responses' = <<>>
            /\ question_start_times' = ShowQuestion(<<>>, loaded, 0)
            /\ first_attempt_times' = <<>>
            /\ option_changes' = <<>>
            /\ page' = "quiz"

StartQuiz ==
    /\ Idle /\ page = "home"
    /\ selected_topic # NoTopic
    /\ \E loaded \in get_questions_from_db(selected_topic, num_questions) :
           StartQuizWith(loaded)
    /\ quizzes_started < MaxQuizzes
    /\ quizzes_started' = quizzes_started + 1
    /\ UNCHANGED <<selected_topic, num_questions, uploaded_files>>
    /\ UNCHANGED <<stored, disk, clock, api_key, probe, locals>>

(***************************************************************************)
(* Quiz page.                                                              *)
(***************************************************************************)
StudentAnswers == { <<"1", "/", "2">>, <<"x">> }
TypedWorks == { <<"w">> }

\* Lines 528-541: the answer box holds numerical_answer.
AnswerEdited(q_id, numerical_answer) ==
    /\ NonEmpty(numerical_answer)
    /\ numerical_answer # Get(responses, q_id, EmptyResponse).final_answer

first_attempt_after(q_id, numerical_answer, starts) ==
    IF AnswerEdited(q_id, numerical_answer) /\ q_id \notin DOMAIN first_attempt_times
    THEN Put(first_attempt_times, q_id, clock - starts[q_id])
    ELSE first_attempt_times

\* option_changes_after counting the first answer as a change.
option_changes_after_counting_first(q_id, numerical_answer) ==
    IF AnswerEdited(q_id, numerical_answer)
    THEN Put(option_changes, q_id, Get(option_changes, q_id, 0) + 1)
    ELSE option_changes

option_changes_after(q_id, numerical_answer) ==
    IF AnswerEdited(q_id, numerical_answer)
    THEN IF q_id \notin DOMAIN option_changes
         THEN Put(option_changes, q_id, 0)
         ELSE Put(option_changes, q_id, option_changes[q_id] + 1)
    ELSE option_changes

\* responses_after_answer never setting changed_answer.
responses_after_answer_unflagged(q_id, numerical_answer) ==
    IF AnswerEdited(q_id, numerical_answer)
    THEN Put(responses, q_id,
             [final_answer |-> numerical_answer,
              changed_answer |-> FALSE,
              typed_work |-> <<>>])
    ELSE responses

responses_after_answer(q_id, numerical_answer) ==
    IF AnswerEdited(q_id, numerical_answer)
    THEN Put(responses, q_id,
             [final_answer |-> numerical_answer,
              changed_answer |-> option_changes_after(q_id, numerical_answer)[q_id] > 0,
              typed_work |-> <<>>])
    ELSE responses

\* Lines 579-583: the work box holds typed_work.
responses_after_work(resp, q_id, typed_work) ==
    IF NonEmpty(typed_work)
    THEN Put(resp, q_id, [Get(resp, q_id, EmptyResponse) EXCEPT !.typed_work = typed_work])
    ELSE resp

\* One run of render_quiz_page on the current question with the widgets
\* holding numerical_answer, typed_work and (or not) an uploaded file.
QuizRerun(numerical_answer, typed_work, uploaded_file) ==
    /\ Idle /\ page = "quiz" /\ questions # <<>>
    /\ LET q_id == CurrentQId
           starts == ShowQuestion(question_start_times, questions,
                                  current_question_idx)
       IN  /\ Get(option_changes, q_id, 0) < MaxChanges
               \/ ~AnswerEdited(q_id, numerical_answer)
           /\ question_start_times' = starts
           /\ first_attempt_times' = first_attempt_after(q_id, numerical_answer, starts)
           /\ option_changes' = option_changes_after(q_id, numerical_answer)
           /\ responses' = responses_after_work(
                               responses_after_answer(q_id, numerical_answer),
                               q_id, typed_work)
           /\ uploaded_files' = IF uploaded_file
                                THEN uploaded_files \cup {q_id}
                                ELSE uploaded_files
    /\ notice' = "none"
    /\ <<responses', first_attempt_times', option_changes', uploaded_files'>>
           # <<responses, first_attempt_times, option_changes, uploaded_files>>
    /\ UNCHANGED <<page, selected_topic, num_questions, questions,
                   current_question_idx, start_time>>
    /\ UNCHANGED <<stored, disk, env, locals>>

\* Previous, Next and the navigator buttons; the rerun shows question i.
GoTo(i) ==
    /\ current_question_idx' = i
    /\ question_start_times' = ShowQuestion(question_start_times, questions, i)
    /\ notice' = "none"
    /\ UNCHANGED <<page, selected_topic, num_questions, questions, responses,
                   start_time, first_attempt_times, option_changes,
                   uploaded_files>>
    /\ UNCHANGED <<stored, disk, env, locals>>

Previous ==
    /\ Idle /\ page = "quiz" /\ questions # <<>>
    /\ current_question_idx > 0
    /\ GoTo(current_question_idx - 1)

NextQuestion ==
    /\ Idle /\ page = "quiz" /\ questions # <<>>
    /\ current_question_idx < Len(questions) - 1
    /\ GoTo(current_question_idx + 1)

Navigate(i) ==
    /\ Idle /\ page = "quiz" /\ questions # <<>>
    /\ i \in 0..(Len(questions) - 1)
    /\ i # current_question_idx
    /\ GoTo(i)

\* Finish Quiz offered on every question.
FinishQuiz_anywhere ==
    /\ Idle /\ page = "quiz" /\ questions # <<>>
    /\ page' = "submit"
    /\ notice' = "none"
    /\ UNCHANGED <<selected_topic, num_questions, questions,
                   current_question_idx, responses, start_time,
                   question_start_times, first_attempt_times, option_changes,
                   uploaded_files>>
    /\ UNCHANGED <<stored, disk, env, locals>>

FinishQuiz ==
    /\ Idle /\ page = "quiz" /\ questions # <<>>
    /\ ~(current_question_idx < Len(questions) - 1)
    /\ page' = "submit"
    /\ notice' = "none"
    /\ UNCHANGED <<selected_topic, num_questions, questions,
                   current_question_idx, responses, start_time,
                   question_start_times, first_attempt_times, option_changes,
                   uploaded_files>>
    /\ UNCHANGED <<stored, disk, env, locals>>

\* Time passes while the student works on the quiz and while Stage 1 waits
\* for a service; these are the stretches after which the clock is read.
Tick ==
    /\ clock < MaxTime
    /\ (Idle /\ page = "quiz") \/ pc = "stage1"
    /\ clock' = clock + 1
    /\ UNCHANGED <<session, stored, disk, api_key, quizzes_started, probe,
                   notice, locals>>

(***************************************************************************)
(* Stage 1, generate_performance_report: one loop iteration per question.  *)
(***************************************************************************)
JudgeOutcomes ==
    { [raises |-> TRUE, text |-> <<>>],
      [raises |-> FALSE, text |-> CORRECT],
      [raises |-> FALSE, text |-> <<"W", "R", "O", "N", "G">>] }

WorkJudgeOutcomes ==
    { [raises |-> TRUE, text |-> <<>>],
      [raises |-> FALSE, text |-> CORRECT] }

OcrOutcomes ==
    { [fail_at |-> "none", text |-> <<" ", "y">>],
      [fail_at |-> "none", text |-> <<>>],
      [fail_at |-> "decode", text |-> <<>>],
      [fail_at |-> "upload", text |-> <<>>],
      [fail_at |-> "remove", text |-> <<" ", "y">>] }

\* The outcome written where the service is not reached.
NoJudge == [raises |-> TRUE, text |-> <<>>]
NoOcr == [fail_at |-> "none", text |-> <<>>]

\* The calls and stage boundaries of a submit run, in the order they happen;
\* a judge call is logged with what the service did.
Event(call, q_id) == [call |-> call, q |-> q_id, outcome |-> NoJudge]

JudgeEvent(q_id, judge) == [call |-> "judge", q |-> q_id, outcome |-> judge]

\* IsAttempted taking any stored response for an attempt.
IsAttempted_any_response(response) ==
    NonEmpty(response.final_answer) \/ NonEmpty(response.typed_work)

\* Line 643, `if final_answer:`.
IsAttempted(response) == NonEmpty(response.final_answer)

\* RevisionOutcome without the test of the number of changes.
RevisionOutcome_unguarded(num_changes, is_correct) ==
    IF is_correct THEN "improved" ELSE "worsened"

\* Lines 665-667.
RevisionOutcome(num_changes, is_correct) ==
    IF num_changes > 0
    THEN IF is_correct THEN "improved" ELSE "worsened"
    ELSE "none"

\* CountsAfter counting an unattempted question as incorrect too.
CountsAfter_double(c, attempted, is_correct) ==
    IF attempted
    THEN IF is_correct
         THEN [c EXCEPT !.correct_count = @ + 1]
         ELSE [c EXCEPT !.incorrect_count = @ + 1]
    ELSE [c EXCEPT !.unattempted_count = @ + 1, !.incorrect_count = @ + 1]

\* Lines 643-657: the running counters after one question.
CountsAfter(c, attempted, is_correct) ==
    IF attempted
    THEN IF is_correct
         THEN [c EXCEPT !.correct_count = @ + 1]
         ELSE [c EXCEPT !.incorrect_count = @ + 1]
    ELSE [c EXCEPT !.unattempted_count = @ + 1]

\* Lines 659-660.
TimeSpent(q_id) ==
    IF q_id \in DOMAIN question_start_times
    THEN clock - question_start_times[q_id]
    ELSE 0

\* Lines 672-696: the record of one question.
QuestionData(question, response, is_correct, work_data) ==
    LET q_id == question.question_id
        num_changes == Get(option_changes, q_id, 0)
    IN  [question_id |-> q_id,
         difficulty |-> question.difficulty,
         concept_tags |-> question.concept_tags,
         final_answer |-> response.final_answer,
         correct_answer |-> question.correct_answer,
         is_correct |-> is_correct,
         changed_answer |-> response.changed_answer,
         time_spent_sec |-> TimeSpent(q_id),
         first_attempt_latency_sec |-> Get(first_attempt_times, q_id, 0),
         num_option_changes |-> num_changes,
         revision_outcome |-> RevisionOutcome(num_changes, is_correct),
         handwritten_uploaded |-> q_id \in uploaded_files,
         typed_work_provided |-> NonEmpty(response.typed_work),
         typed_work_text |-> response.typed_work,
         handwritten_work_ocr |-> work_data.handwritten_work_ocr,
         combined_work_text |-> work_data.combined_work]

\* SUBMIT QUIZ is pressed: generate_performance_report starts (lines 618-629).
SubmitQuiz ==
    /\ Idle /\ page = "submit"
    /\ pc' = "stage1"
    /\ loop_idx' = 0
    /\ questions_data' = <<>>
    /\ counts' = ZeroCounts
    /\ report_now' = clock
    /\ local_stage1' = <<>>
    /\ local_stage2' = <<>>
    /\ local_stage3' = <<>>
    /\ call_log' = <<>>
    /\ notice' = "none"
    /\ UNCHANGED <<session, stored, disk, env>>

\* LoopDone true after the first question.
LoopDone_early == loop_idx >= 1 \/ loop_idx = Len(questions)

\* The loop runs while questions remain (line 631).
LoopDone == loop_idx = Len(questions)

\* Lines 631-698 for the question at loop_idx, the services behaving as
\* `judge` and `ocr`.
Stage1Question(judge, ocr) ==
    /\ pc = "stage1" /\ ~LoopDone
    /\ LET question == questions[loop_idx + 1]
           q_id == question.question_id
           response == Get(responses, q_id, EmptyResponse)
           work_data == process_student_work(q_id, responses, uploaded_files,
                                             api_key, ocr)
           attempted == IsAttempted(response)
           verdict == check_answer_with_llm(response.final_answer,
                                            question.correct_answer,
                                            api_key, judge)
           is_correct == attempted /\ verdict.verdict
       IN  /\ (attempted /\ api_key) \/ judge = NoJudge
           /\ (q_id \in uploaded_files /\ api_key) \/ ocr = NoOcr
           /\ temp_files' = IF work_data.temp_left THEN temp_files \cup {q_id}
                            ELSE IF work_data.temp_created
                                 THEN temp_files \ {q_id}
                                 ELSE temp_files
           /\ call_log' = call_log
                  \o (IF work_data.called THEN <<Event("ocr", q_id)>> ELSE <<>>)
                  \o (IF attempted /\ verdict.called
                      THEN <<JudgeEvent(q_id, judge)>> ELSE <<>>)
           /\ IF work_data.raised \/ (attempted /\ verdict.raised)
              THEN \* an exception leaves the handler
                   /\ pc' = "idle"
                   /\ notice' = "fault"
                   /\ UNCHANGED <<loop_idx, questions_data, counts>>
              ELSE /\ counts' = CountsAfter(counts, attempted, is_correct)
                   /\ questions_data' = Append(questions_data,
                          QuestionData(question, response, is_correct, work_data))
                   /\ loop_idx' = loop_idx + 1
                   /\ UNCHANGED <<pc, notice>>
    /\ UNCHANGED <<session, stored, report_files, env, report_now,
                   local_stage1, local_stage2, local_stage3>>

\* Lines 703-722.
Stage1Report ==
    [report_id |-> <<"rep", report_now>>,
     assessment_id |-> selected_topic,
     num_questions |-> Len(questions),
     score_summary |->
        [raw_score |-> counts.correct_count,
         max_score |-> Len(questions),
         correct_count |-> counts.correct_count,
         incorrect_count |-> counts.incorrect_count,
         unattempted_count |-> counts.unattempted_count],
     questions |-> questions_data]

(***************************************************************************)
(* Stage 2, generate_stage2_report: a function of the Stage-1 report.      *)
(* Ratios are kept as numerator and denominator.                           *)
(***************************************************************************)
easy_time_threshold == 120
impulsive_threshold == 20

\* CountWhere counting every record.
CountWhere_all(passes) == Cardinality(DOMAIN passes)

\* sum(1 for q in ... if ...): the number of records that pass a test, given
\* the test's value for each record.
CountWhere(passes) == Cardinality({ i \in DOMAIN passes : passes[i] })

\* Attempted taking every question as attempted.
Attempted_any(q) == TRUE

\* q['submission']['final_answer'] is truthy (line 738).
Attempted(q) == NonEmpty(q.final_answer)

RECURSIVE GCD(_, _)
GCD(a, b) == IF b = 0 THEN a ELSE GCD(b, a % b)

\* Exact fractions in lowest terms stand for the floats of the source.
Ratio(n, d) ==
    LET g == GCD(IF n < 0 THEN -n ELSE n, d)
    IN  [num |-> n \div g, den |-> d \div g]

\* RatioOrZero giving 1 for an empty denominator.
RatioOrZero_one(n, d) == IF d > 0 THEN Ratio(n, d) ELSE Ratio(1, 1)

\* `n / d if d else 0`.
RatioOrZero(n, d) == IF d > 0 THEN Ratio(n, d) ELSE Ratio(0, 1)

RLeq(a, b) == a.num * b.den <= b.num * a.den

RAdd(a, b) == Ratio(a.num * b.den + b.num * a.den, a.den * b.den)

RMul(a, b) == Ratio(a.num * b.num, a.den * b.den)

\* round(x, 2) for x >= 0, in hundredths: to the nearest, a tie to the even.
Round2(x) ==
    LET scaled == x.num * 100
        whole == scaled \div x.den
        rest == scaled % x.den
    IN  IF 2 * rest > x.den THEN whole + 1
        ELSE IF 2 * rest = x.den THEN whole + (whole % 2)
             ELSE whole

RECURSIVE SumOf(_)
SumOf(numbers) ==
    IF numbers = <<>> THEN 0 ELSE Head(numbers) + SumOf(Tail(numbers))

\* statistics.mean of a list, 0 for the empty list.
MeanOrZero(numbers) == RatioOrZero(SumOf(numbers), Len(numbers))

\* The members of a list whose flag is set, in order.
RECURSIVE Keep(_, _)
Keep(items, flags) ==
    IF items = <<>> THEN <<>>
    ELSE (IF Head(flags) THEN <<Head(items)>> ELSE <<>>)
             \o Keep(Tail(items), Tail(flags))

\* Lines 758-759: the (question, tag) pairs in the order the loops visit them.
RECURSIVE TagEntries(_)
TagEntries(qs) ==
    IF qs = <<>> THEN <<>>
    ELSE [i \in 1..Len(Head(qs).concept_tags) |->
             [q |-> Head(qs), tag |-> Head(qs).concept_tags[i]]]
         \o TagEntries(Tail(qs))

\* FirstSeen keeping every occurrence of a tag.
FirstSeen_all(tags) == tags

\* The keys of concept_data in insertion order.
RECURSIVE FirstSeen(_)
FirstSeen(tags) ==
    IF tags = <<>> THEN <<>>
    ELSE LET before == FirstSeen(SubSeq(tags, 1, Len(tags) - 1))
             last == tags[Len(tags)]
         IN  IF \E i \in DOMAIN before : before[i] = last
             THEN before
             ELSE Append(before, last)

HasWork(q) == q.typed_work_provided \/ q.handwritten_uploaded

\* Lines 758-788: what concept_data holds for one tag.
ConceptData(entries, tag) ==
    LET Mine(i) == entries[i].tag = tag /\ Attempted(entries[i].q)
        times == [i \in DOMAIN entries |-> entries[i].q.time_spent_sec]
        latencies == [i \in DOMAIN entries |->
                         entries[i].q.first_attempt_latency_sec]
    IN  [questions |-> CountWhere([i \in DOMAIN entries |-> entries[i].tag = tag]),
         attempted |-> CountWhere([i \in DOMAIN entries |-> Mine(i)]),
         correct |-> CountWhere([i \in DOMAIN entries |->
                                    Mine(i) /\ entries[i].q.is_correct]),
         time_spent |-> Keep(times, [i \in DOMAIN entries |->
                                        Mine(i) /\ times[i] > 0]),
         first_attempt |-> Keep(latencies, [i \in DOMAIN entries |->
                                               Mine(i) /\ latencies[i] > 0]),
         changed_answers |-> CountWhere([i \in DOMAIN entries |->
                                    Mine(i) /\ entries[i].q.changed_answer]),
         work_evidence |-> CountWhere([i \in DOMAIN entries |->
                                    Mine(i) /\ HasWork(entries[i].q)])]

\* Lines 799-805.
WorkQuality(data) ==
    LET high == 10 * data.correct > 7 * data.attempted
        half == 10 * data.correct > 5 * data.attempted
    IN  IF 10 * data.work_evidence >= 8 * data.attempted
        THEN IF high THEN 8 ELSE 6
        ELSE IF 10 * data.work_evidence >= 5 * data.attempted
             THEN IF half THEN 6 ELSE 4
             ELSE 3

\* TimeScore without the max.
TimeScore_unclamped(avg_time) ==
    Ratio(300 * avg_time.den - avg_time.num, 300 * avg_time.den)

\* Line 810: max(0, 1 - avg_time / 300).
TimeScore(avg_time) ==
    LET score == Ratio(300 * avg_time.den - avg_time.num, 300 * avg_time.den)
    IN  IF score.num < 0 THEN Ratio(0, 1) ELSE score

\* Line 813.
ImpulsivityScore(avg_first_attempt) ==
    IF ~RLeq(avg_first_attempt, Ratio(impulsive_threshold, 1))
    THEN Ratio(1, 1)
    ELSE Ratio(1, 2)

\* Lines 817-822.
ConceptConfidence(accuracy_score, time_score, impulsivity_score, work_score) ==
    RAdd(RAdd(RMul(Ratio(4, 10), accuracy_score),
              RMul(Ratio(2, 10), time_score)),
         RAdd(RMul(Ratio(2, 10), impulsivity_score),
              RMul(Ratio(2, 10), work_score)))

\* Lines 796-857: the entry of one concept that was attempted.
ConceptObj(tag, data) ==
    LET accuracy == Ratio(data.correct, data.attempted)
        work_quality == WorkQuality(data)
        time_score == TimeScore(MeanOrZero(data.time_spent))
        impulsivity_score == ImpulsivityScore(MeanOrZero(data.first_attempt))
        work_score == Ratio(work_quality, 10)
        concept_confidence == ConceptConfidence(accuracy, time_score,
                                                impulsivity_score, work_score)
    IN  [concept_id |-> tag,
         attempted |-> data.attempted,
         correct |-> data.correct,
         accuracy |-> accuracy,
         accuracy_value |-> Round2(accuracy),
         work_quality |-> work_quality,
         evidence_count |-> data.work_evidence,
         time_score |-> time_score,
         impulsivity_score |-> impulsivity_score,
         work_score |-> work_score,
         concept_confidence |-> concept_confidence,
         concept_confidence_value |-> Round2(concept_confidence)]

\* Lines 756-859: concepts_list.
ConceptsList(qs) ==
    LET entries == TagEntries(qs)
        ids == FirstSeen([i \in DOMAIN entries |-> entries[i].tag])
        kept == Keep(ids, [i \in DOMAIN ids |->
                              ConceptData(entries, ids[i]).attempted # 0])
    IN  [i \in DOMAIN kept |-> ConceptObj(kept[i], ConceptData(entries, kept[i]))]

\* A Stage-2 report that does not name the report it was made from.
generate_stage2_report_unlinked(stage1) ==
    [report_id |-> stage1.report_id \o <<"_stage2">>,
     source_stage1_report_id |-> <<"rep">>,
     concepts |-> <<>>]

generate_stage2_report(stage1) ==
    LET qs == stage1.questions
        IsEasy(q) == q.difficulty = "easy"
        Overthinks(q) == IsEasy(q) /\ q.time_spent_sec > easy_time_threshold
        Impulsive(q) == /\ 0 < q.first_attempt_latency_sec
                        /\ q.first_attempt_latency_sec < impulsive_threshold
        Changed(q) == q.changed_answer
        Improved(q) == q.revision_outcome = "improved"
        Worsened(q) == q.revision_outcome = "worsened"
        Unrevised(q) == q.revision_outcome = "none"
        total_attempted == CountWhere([i \in DOMAIN qs |-> Attempted(qs[i])])
        easy_count == CountWhere([i \in DOMAIN qs |-> IsEasy(qs[i])])
        overthinking_count == CountWhere([i \in DOMAIN qs |-> Overthinks(qs[i])])
        impulsive_count == CountWhere([i \in DOMAIN qs |-> Impulsive(qs[i])])
        overthinking_index == RatioOrZero(overthinking_count, easy_count)
        impulsivity_index == RatioOrZero(impulsive_count, total_attempted)
    IN  [report_id |-> stage1.report_id \o <<"_stage2">>,
         source_stage1_report_id |-> stage1.report_id,
         total_attempted |-> total_attempted,
         changed_answers |-> CountWhere([i \in DOMAIN qs |-> Changed(qs[i])]),
         improved_count |-> CountWhere([i \in DOMAIN qs |-> Improved(qs[i])]),
         worsened_count |-> CountWhere([i \in DOMAIN qs |-> Worsened(qs[i])]),
         no_change_count |-> CountWhere([i \in DOMAIN qs |-> Unrevised(qs[i])]),
         easy_count |-> easy_count,
         overthinking_count |-> overthinking_count,
         impulsive_count |-> impulsive_count,
         overthinking_index |-> overthinking_index,
         overthinking_index_value |-> Round2(overthinking_index),
         impulsivity_index |-> impulsivity_index,
         impulsivity_index_value |-> Round2(impulsivity_index),
         concepts |-> ConceptsList(qs)]

\* The loop of generate_performance_report is over: it returns the Stage-1
\* report (lines 700-724) and generate_stage2_report runs on it (line 1116).
Stage2Run ==
    /\ pc = "stage1" /\ LoopDone
    /\ local_stage1' = <<Stage1Report>>
    /\ local_stage2' = <<generate_stage2_report(Stage1Report)>>
    /\ call_log' = call_log \o <<Event("stage1_done", "-"), Event("stage2_done", "-")>>
    /\ pc' = "stage3"
    /\ UNCHANGED <<session, stored, disk, env, notice, loop_idx,
                   questions_data, counts, report_now, local_stage3>>

(***************************************************************************)
(* Stage 3, generate_stage3_report_with_llm.  JSON values are tagged       *)
(* records; None is the null value.                                        *)
(***************************************************************************)
JNull == [kind |-> "null"]
JNum(n) == [kind |-> "number", n |-> n]
JStr(str) == [kind |-> "string", s |-> str]
JList(items) == [kind |-> "list", items |-> items]
JObj(fields) == [kind |-> "object", fields |-> fields]
Malformed == [kind |-> "malformed"]

\* Python truthiness of a parsed JSON value.
Truthy(v) ==
    CASE v.kind = "null" -> FALSE
      [] v.kind = "number" -> v.n # 0
      [] v.kind = "string" -> v.s # ""
      [] v.kind = "list" -> v.items # <<>>
      [] v.kind = "object" -> DOMAIN v.fields # {}
      [] OTHER -> FALSE

\* v[key] succeeds: v is a dict holding key.
HasKey(v, key) == v.kind = "object" /\ key \in DOMAIN v.fields

ReportMeta(id) == JObj([report_id |-> JStr(id)])

FullPlan(id) ==
    JObj([schema_version |-> JStr("stage3.v1"),
          report_meta |-> JObj([report_id |-> JStr(id),
                                source_stage2_report_id |-> JStr("s2"),
                                generated_at_iso |-> JStr("t"),
                                producer |-> JStr("p")]),
          priority_concepts |-> JList(<<>>),
          video_requests |-> JList(<<>>)])

\* A response text is a sequence of pieces: the fence marks ```json and ```,
\* and stretches of text that are a JSON value or are not JSON.
JsonFence == [kind |-> "json_fence"]
Fence == [kind |-> "fence"]

NoStage3 == [raises |-> TRUE, text |-> <<>>]

\* What the service does with the Stage-3 prompt: it raises, or answers with
\* a text that may be fenced and whose body is JSON or not.
Stage3Outcomes ==
    { NoStage3 }
    \cup { [raises |-> FALSE, text |-> <<b>>] :
             b \in { Malformed, JNull, JNum(5),
                     JObj([priority_concepts |-> JList(<<>>)]),
                     JObj([report_meta |-> ReportMeta("p1")]),
                     FullPlan("p1") } }
    \cup { [raises |-> FALSE, text |-> <<JsonFence, FullPlan("p1"), Fence>>],
           [raises |-> FALSE, text |-> <<Fence, JNum(5), Fence>>],
           [raises |-> FALSE, text |-> <<FullPlan("p1"), Fence>>] }

\* The outcomes in which the answer is well-formed, or is not JSON at all.
PlainStage3Outcomes ==
    { [raises |-> FALSE, text |-> <<b>>] : b \in { Malformed, FullPlan("p1") } }

NotFence(piece) == piece # Fence

NotAnyFence(piece) == piece # JsonFence /\ piece # Fence

\* Lines 1054-1059: a text that starts with a fence loses its fence marks.
StripFences(text) ==
    IF text # <<>> /\ text[1] = JsonFence
    THEN SelectSeq(text, NotAnyFence)
    ELSE IF text # <<>> /\ text[1] = Fence
         THEN SelectSeq(text, NotFence)
         ELSE text

\* Line 1061, json.loads: the text must be one JSON value.
ParseResponse(outcome) ==
    LET response_text == StripFences(outcome.text)
    IN  IF Len(response_text) = 1
           /\ response_text[1].kind \notin {"malformed", "json_fence", "fence"}
        THEN [ok |-> TRUE, value |-> response_text[1]]
        ELSE [ok |-> FALSE, value |-> JNull]

generate_stage3_report_with_llm(stage2, stage1, key, outcome) ==
    IF ~key
    THEN [result |-> JNull, called |-> FALSE, error |-> "no_key"]
    ELSE IF outcome.raises
         THEN [result |-> JNull, called |-> TRUE, error |-> "call_failed"]
         ELSE IF ~ParseResponse(outcome).ok
              THEN [result |-> JNull, called |-> TRUE, error |-> "bad_json"]
              ELSE [result |-> ParseResponse(outcome).value, called |-> TRUE,
                    error |-> "none"]

\* Line 1124: the report id the file is named by, when the look-up succeeds.
ReportIdReadable(report) ==
    /\ HasKey(report, "report_meta")
    /\ HasKey(report.fields.report_meta, "report_id")

\* Stage3Accepted without the test.
Stage3Accepted_always(report) == TRUE

\* Line 1120: the result is accepted.
Stage3Accepted(report) == Truthy(report)

\* Lines 1118-1136: Stage 3 is called as the service behaves (`outcome`) and
\* the handler ends.
Stage3Run(outcome) ==
    /\ pc = "stage3"
    /\ api_key \/ outcome = NoStage3
    /\ pc' = "idle"
    /\ LET r == generate_stage3_report_with_llm(local_stage2[1], local_stage1[1],
                                                api_key, outcome)
           stage3_report == r.result
       IN  /\ local_stage3' = <<r>>
           /\ call_log' = IF r.called
                          THEN Append(call_log, Event("stage3_call", "-"))
                          ELSE call_log
           /\ IF Stage3Accepted(stage3_report)
              THEN IF ReportIdReadable(stage3_report)
                   THEN /\ report_files' = report_files \cup
                               {stage3_report.fields.report_meta.fields.report_id}
                        /\ stage1_report' = local_stage1
                        /\ stage2_report' = local_stage2
                        /\ final_report' = <<stage3_report>>
                        /\ report_file' =
                               <<stage3_report.fields.report_meta.fields.report_id>>
                        /\ page' = "results"
                        /\ notice' = "none"
                   ELSE \* KeyError or TypeError leaves the handler
                        /\ notice' = "fault"
                        /\ UNCHANGED <<page, stored, report_files>>
              ELSE /\ notice' = "submit_failed"
                   /\ UNCHANGED <<page, stored, report_files>>
    /\ UNCHANGED <<selected_topic, num_questions, questions,
                   current_question_idx, responses, start_time,
                   question_start_times, first_attempt_times, option_changes,
                   uploaded_files, temp_files, env, loop_idx,
                   questions_data, counts, report_now, local_stage1,
                   local_stage2>>

\* Back to Quiz of render_submit_page; the rerun shows the current question.
BackToQuiz ==
    /\ Idle /\ page = "submit"
    /\ page' = "quiz"
    /\ question_start_times' =
           ShowQuestion(question_start_times, questions, current_question_idx)
    /\ notice' = "none"
    /\ LocalsReset
    /\ UNCHANGED <<selected_topic, num_questions, questions,
                   current_question_idx, responses, start_time,
                   first_attempt_times, option_changes, uploaded_files>>
    /\ UNCHANGED <<stored, disk, env>>

\* Back to Home of render_results_page (lines 1299-1305).
BackToHome ==
    /\ Idle /\ page = "results"
    /\ page' = "home"
    /\ questions' = <<>>
    /\ responses' = <<>>
    /\ current_question_idx' = 0
    /\ selected_topic' = NoTopic
    /\ notice' = "none"
    /\ LocalsReset
    /\ UNCHANGED <<num_questions, start_time, question_start_times,
                   first_attempt_times, option_changes, uploaded_files>>
    /\ UNCHANGED <<stored, disk, env>>

\* The steps of one submit run.
Pipeline(judges, ocrs, plans) ==
    \/ SubmitQuiz
    \/ \E judge \in judges \cup {NoJudge}, ocr \in ocrs \cup {NoOcr} :
          Stage1Question(judge, ocr)
    \/ Stage2Run
    \/ \E outcome \in plans \cup {NoStage3} : Stage3Run(outcome)

Navigation ==
    \/ Previous
    \/ NextQuestion
    \/ \E i \in 0..(MaxQuestions - 1) : Navigate(i)
    \/ FinishQuiz
    \/ BackToQuiz

(***************************************************************************)
(* Spec follows one quiz from the home page to the results page: answers   *)
(* are entered and changed; no work is typed or uploaded.                  *)
(***************************************************************************)
Next ==
    \/ \E topic \in Topics : SelectTopic(topic)
    \/ StartQuiz
    \/ \E a \in StudentAnswers \cup {<<>>} : QuizRerun(a, <<>>, FALSE)
    \/ Navigation
    \/ Pipeline(JudgeOutcomes, {}, PlainStage3Outcomes)
    \/ Tick

Spec == Init /\ [][Next]_vars

(***************************************************************************)
(* SpecWork follows one quiz in which work is typed and images are        *)
(* uploaded as well; the answer box takes one value and the quiz is taken  *)
(* within one tick of the clock (timing is followed under Spec).           *)
(***************************************************************************)
WorkAnswers == { <<"x">> }

NextWork ==
    \/ \E topic \in Topics : SelectTopic(topic)
    \/ StartQuiz
    \/ \E a \in WorkAnswers \cup {<<>>}, w \in TypedWorks \cup {<<>>},
          u \in BOOLEAN : QuizRerun(a, w, u)
    \/ Navigation
    \/ Pipeline(WorkJudgeOutcomes, OcrOutcomes, Stage3Outcomes)

SpecWork == Init /\ [][NextWork]_vars

(***************************************************************************)
(* SpecJudge applies check_answer_with_llm once to arguments drawn from    *)
(* small sets of texts, with and without the credential.                   *)
(***************************************************************************)
Half == <<"1", "/", "2">>
ZeroPointFive == <<"0", ".", "5">>

JudgeStudentTexts ==
    { Half, ZeroPointFive, <<" ">> \o Half \o <<"\n">>, <<"X">>, <<"x">>,
      <<"\t", "x", " ">>, <<"1", " ", "/", "2">>, <<>> }

JudgeCorrectTexts == { Half, <<"X">>, <<" ", "x">> }

JudgeResponses ==
    { [raises |-> TRUE, text |-> <<>>],
      [raises |-> FALSE, text |-> CORRECT],
      [raises |-> FALSE, text |-> <<"I", "N">> \o CORRECT],
      [raises |-> FALSE, text |-> <<" ">> \o Lower(CORRECT) \o <<"\n">>],
      [raises |-> FALSE, text |-> <<"C", "o", "r", "r", "e", "c", "t", ".">>],
      [raises |-> FALSE, text |-> <<"W", "R", "O", "N", "G">>],
      [raises |-> FALSE, text |-> <<"C", "O", "R", "E", "C", "T">>],
      [raises |-> FALSE, text |-> <<>>] }

InitJudge ==
    /\ SessionInit
    /\ probe \in { [fn |-> "judge", student |-> a, correct |-> c, outcome |-> o,
                    result |-> <<>>] :
                   a \in JudgeStudentTexts, c \in JudgeCorrectTexts,
                   o \in JudgeResponses }

JudgeCall ==
    /\ probe.fn = "judge" /\ probe.result = <<>>
    /\ probe' = [probe EXCEPT !.result =
                    <<check_answer_with_llm(probe.student, probe.correct,
                                            api_key, probe.outcome)>>]
    /\ UNCHANGED <<session, stored, disk, clock, api_key, quizzes_started,
                   notice, locals>>

NextJudge == JudgeCall

SpecJudge == InitJudge /\ [][NextJudge]_vars

(***************************************************************************)
(* SpecOcr applies process_student_work on its own to one question, over   *)
(* the typed work, the upload, the credential and what the service and the *)
(* file system do.                                                         *)
(***************************************************************************)
OcrFailures == { "none", "decode", "write", "upload", "model", "remove" }

OcrTexts == { <<>>, <<" ", "y">>, <<"y">>, <<" ">> }

InitOcr ==
    /\ SessionInit
    /\ probe \in { [fn |-> "ocr", typed_work |-> w, uploaded |-> u,
                    outcome |-> [fail_at |-> f, text |-> t], result |-> <<>>] :
                   w \in TypedWorks \cup {<<>>}, u \in BOOLEAN,
                   f \in OcrFailures, t \in OcrTexts }

OcrCall ==
    /\ probe.fn = "ocr" /\ probe.result = <<>>
    /\ LET q_id == "OLY_1"
           resp == IF probe.typed_work = <<>> THEN <<>>
                   ELSE Put(<<>>, q_id, [EmptyResponse EXCEPT
                                            !.typed_work = probe.typed_work])
           files == IF probe.uploaded THEN {q_id} ELSE {}
       IN  probe' = [probe EXCEPT !.result =
                        <<process_student_work(q_id, resp, files, api_key,
                                               probe.outcome)>>]
    /\ UNCHANGED <<session, stored, disk, clock, api_key, quizzes_started,
                   notice, locals>>

NextOcr == OcrCall

SpecOcr == InitOcr /\ [][NextOcr]_vars

(***************************************************************************)
(* SpecQuiz follows the quiz page alone: answers are entered and changed,  *)
(* work is typed, images are uploaded, questions are revisited and the     *)
(* clock runs; the quiz is not submitted.                                  *)
(***************************************************************************)
NextQuiz ==
    \/ \E topic \in Topics : SelectTopic(topic)
    \/ StartQuiz
    \/ \E a \in StudentAnswers \cup {<<>>}, w \in TypedWorks \cup {<<>>},
          u \in BOOLEAN : QuizRerun(a, w, u)
    \/ Navigation
    \/ Tick

SpecQuiz == Init /\ [][NextQuiz]_vars

(***************************************************************************)
(* SpecStage2 applies generate_stage2_report on its own, twice, to Stage-1 *)
(* reports of up to MaxRecords questions of one store; the credential is  *)
(* configured.                                                             *)
(***************************************************************************)
MaxRecords == 3

\* What the quiz leaves for one question: nothing, or an answer with its
\* timing, its changes and the work handed in.
Stage2Behaviours ==
    { [answered |-> FALSE, time |-> 130, latency |-> 0, changes |-> 0, work |-> TRUE],
      [answered |-> TRUE, time |-> 0, latency |-> 0, changes |-> 0, work |-> FALSE],
      [answered |-> TRUE, time |-> 130, latency |-> 5, changes |-> 0, work |-> TRUE],
      [answered |-> TRUE, time |-> 120, latency |-> 20, changes |-> 0, work |-> FALSE],
      [answered |-> TRUE, time |-> 100000, latency |-> 30, changes |-> 1, work |-> TRUE] }

OlympiadKinds ==
    { Question("OLY", "easy", <<"ALGEBRA">>, <<"X">>),
      Question("OLY", "hard", <<"GEOMETRY">>, <<"X">>) }

CalculusKinds ==
    { Question("CALC", "easy", <<"CALCULUS", "GENERAL">>, <<"X">>) }

\* The Stage-1 record of a question of one kind after one behaviour.
RecordOf(kind, b, is_correct) ==
    [question_id |-> kind.question_id,
     difficulty |-> kind.difficulty,
     concept_tags |-> kind.concept_tags,
     final_answer |-> IF b.answered THEN <<"x">> ELSE <<>>,
     correct_answer |-> kind.correct_answer,
     is_correct |-> is_correct,
     changed_answer |-> b.changes > 0,
     time_spent_sec |-> b.time,
     first_attempt_latency_sec |-> b.latency,
     num_option_changes |-> b.changes,
     revision_outcome |-> RevisionOutcome(b.changes, is_correct),
     handwritten_uploaded |-> FALSE,
     typed_work_provided |-> b.work,
     typed_work_text |-> IF b.work THEN <<"w">> ELSE <<>>,
     handwritten_work_ocr |-> <<>>,
     combined_work_text |-> IF b.work THEN <<"w">> ELSE <<>>]

RecordsOf(kinds) ==
    { RecordOf(k, b, c) : k \in kinds,
                          b \in Stage2Behaviours,
                          c \in BOOLEAN }
    \ { RecordOf(k, b, TRUE) : k \in kinds,
                               b \in { x \in Stage2Behaviours : ~x.answered } }

\* The Stage-1 report with these records, numbered in order.
ReportFrom(records) ==
    LET qs == [i \in DOMAIN records |->
                  [records[i] EXCEPT !.question_id = <<@, i>>]]
        Right(i) == Attempted(qs[i]) /\ qs[i].is_correct
        Wrong(i) == Attempted(qs[i]) /\ ~qs[i].is_correct
    IN  [report_id |-> <<"rep", 0>>,
         assessment_id |-> "Algebra",
         num_questions |-> Len(qs),
         score_summary |->
            [raw_score |-> CountWhere([i \in DOMAIN qs |-> Right(i)]),
             max_score |-> Len(qs),
             correct_count |-> CountWhere([i \in DOMAIN qs |-> Right(i)]),
             incorrect_count |-> CountWhere([i \in DOMAIN qs |-> Wrong(i)]),
             unattempted_count |->
                 CountWhere([i \in DOMAIN qs |-> ~Attempted(qs[i])])],
         questions |-> qs]

\* Stage2Invocation emptying the question list of its argument.
Stage2Invocation_consuming(stage1) ==
    [report |-> generate_stage2_report(stage1),
     stage1_after |-> [stage1 EXCEPT !.questions = <<>>],
     calls |-> <<>>]

\* What one invocation of generate_stage2_report leaves: the report it
\* returns, its argument as it is afterwards (no statement assigns into
\* stage1_report), and the external calls it made (none).
Stage2Invocation(stage1) ==
    [report |-> generate_stage2_report(stage1),
     stage1_after |-> stage1,
     calls |-> <<>>]

InitStage2 ==
    /\ SessionInit /\ api_key
    /\ \E n \in 0..MaxRecords, kinds \in {OlympiadKinds, CalculusKinds} :
          \E records \in [1..n -> RecordsOf(kinds)] :
              probe = [fn |-> "stage2", stage1 |-> ReportFrom(records),
                       first |-> <<>>, second |-> <<>>]

Stage2Call ==
    /\ probe.fn = "stage2" /\ probe.first = <<>>
    /\ probe' = [probe EXCEPT !.first = <<Stage2Invocation(probe.stage1)>>]
    /\ UNCHANGED <<session, stored, disk, clock, api_key, quizzes_started,
                   notice, locals>>

\* The second invocation gets what the first one left of the report.
Stage2Again ==
    /\ probe.fn = "stage2" /\ probe.first # <<>> /\ probe.second = <<>>
    /\ probe' = [probe EXCEPT
                    !.second = <<Stage2Invocation(probe.first[1].stage1_after)>>]
    /\ UNCHANGED <<session, stored, disk, clock, api_key, quizzes_started,
                   notice, locals>>

NextStage2 == Stage2Call \/ Stage2Again

SpecStage2 == InitStage2 /\ [][NextStage2]_vars

(***************************************************************************)
(* SpecExtract: extract_answer_from_json applied to one stored text, and   *)
(* applied again to its own result written as a JSON string.               *)
(***************************************************************************)
\* Stored texts that are not JSON, and the empty column.
RawTexts ==
    { <<>>, <<"1", "/", "2">>, <<"x", "^", "2">>, <<"{", "a">>,
      <<"\"", "a">>, <<"\"", "a", "\"", "b", "\"">> }

AnswerTexts == { json_dumps(Payloads[i]) : i \in 1..Len(Payloads) } \cup RawTexts

InitExtract ==
    /\ SessionInit
    /\ \E text \in AnswerTexts, type \in AnswerTypes :
           probe = [fn |-> "extract", answer_json_str |-> text,
                    answer_type |-> type, done |-> 0,
                    first |-> NoAnswer, again |-> NoAnswer]

ExtractCall ==
    /\ probe.fn = "extract" /\ probe.done = 0
    /\ probe' = [probe EXCEPT
                   !.done = 1,
                   !.first = extract_answer_from_json(probe.answer_json_str,
                                                      probe.answer_type)]
    /\ UNCHANGED <<session, stored, disk, clock, api_key, quizzes_started,
                   notice, locals>>

\* The first result, written as a JSON string and extracted again.
ExtractAgain ==
    /\ probe.fn = "extract" /\ probe.done = 1
    /\ LET encoded == IF probe.first.none THEN json_dumps(PyNone)
                      ELSE JsonStringLiteral(probe.first.text)
       IN  probe' = [probe EXCEPT
                       !.done = 2,
                       !.again = extract_answer_from_json(encoded,
                                                          probe.answer_type)]
    /\ UNCHANGED <<session, stored, disk, clock, api_key, quizzes_started,
                   notice, locals>>

NextExtract == ExtractCall \/ ExtractAgain

SpecExtract == InitExtract /\ [][NextExtract]_vars

(***************************************************************************)
(* SpecSession follows a session through several quizzes: from the results *)
(* page the student goes back to the home page and starts again.  The      *)
(* answer box takes one value, images are uploaded, the services answer,   *)
(* and the clock stands still.                                             *)
(***************************************************************************)
SessionJudgeOutcomes == { [raises |-> FALSE, text |-> CORRECT] }

SessionOcrOutcomes == { [fail_at |-> "none", text |-> <<" ", "y">>] }

NextSession ==
    \/ \E topic \in Topics : SelectTopic(topic)
    \/ StartQuiz
    \/ \E a \in WorkAnswers \cup {<<>>}, u \in BOOLEAN : QuizRerun(a, <<>>, u)
    \/ Navigation
    \/ Pipeline(SessionJudgeOutcomes, SessionOcrOutcomes, PlainStage3Outcomes)
    \/ BackToHome

SpecSession == Init /\ [][NextSession]_vars

\* Lines 1079-1080 of render_submit_page (and line 495 of the quiz header):
\* the attempted and unattempted counts shown to the student.
DisplayedAttempted == Cardinality(DOMAIN responses)

DisplayedUnattempted == Len(questions) - DisplayedAttempted

(***************************************************************************)
(* SpecStore: get_questions_from_db makes a question of one olympiad row,  *)
(* or skips the row.                                                       *)
(***************************************************************************)
\* Lengths of the solution text around the thresholds of lines 196-199.
SolutionLengths == {0, 1, 199, 200, 201, 500, 501}

\* The rows the table can hold: any stored answer text and answer_type, a
\* solution text of one of SolutionLengths or no solution (NULL).
ProbeRows ==
    { [id |-> "OLY_9", tag |-> "ALGEBRA", answer_type |-> type,
       final_answer_json |-> text, has_solution |-> TRUE, sol_len |-> n] :
        type \in AnswerTypes, text \in AnswerTexts, n \in SolutionLengths }
    \cup
    { [id |-> "OLY_9", tag |-> "ALGEBRA", answer_type |-> type,
       final_answer_json |-> text, has_solution |-> FALSE, sol_len |-> 0] :
        type \in AnswerTypes, text \in AnswerTexts }

InitStore ==
    /\ SessionInit
    /\ \E row \in ProbeRows :
           probe = [fn |-> "row", row |-> row, done |-> 0,
                    first |-> NoAnswer, kept |-> FALSE, question |-> <<>>]

\* One iteration of the loop of lines 185-214.
RowCall ==
    /\ probe.fn = "row" /\ probe.done = 0
    /\ probe' = [probe EXCEPT
                   !.done = 1,
                   !.first = extract_answer_from_json(
                                 probe.row.final_answer_json,
                                 probe.row.answer_type),
                   !.kept = RowKept(probe.row),
                   !.question = IF RowKept(probe.row)
                                THEN <<OlympiadQuestion(probe.row)>>
                                ELSE <<>>]
    /\ UNCHANGED <<session, stored, disk, clock, api_key, quizzes_started,
                   notice, locals>>

NextStore == RowCall

SpecStore == InitStore /\ [][NextStore]_vars

(***************************************************************************)
(* Properties.                                                             *)
(***************************************************************************)
\* A submit run has produced its Stage-1 report.
ReportReady == local_stage1 # <<>>

\* A submit run has started and not been dismissed.
RunStarted == report_now # NoTime

\* The handler of SUBMIT QUIZ has ended.
RunEnded == pc = "idle" /\ local_stage3 # <<>>

\* The judge events logged for question q_id.
JudgeEventsOf(q_id) ==
    { k \in DOMAIN call_log : call_log[k].call = "judge" /\ call_log[k].q = q_id }

\* C1: in every Stage-1 record, revision_outcome is "none" iff
\* num_option_changes = 0; with changes it is "improved" when is_correct and
\* "worsened" otherwise.
C1_RevisionOutcome ==
    \A i \in DOMAIN questions_data :
        LET r == questions_data[i]
        IN  /\ (r.revision_outcome = "none") <=> (r.num_option_changes = 0)
            /\ r.num_option_changes > 0 =>
                   r.revision_outcome = IF r.is_correct THEN "improved"
                                        ELSE "worsened"

\* A report holding an improved and a worsened revision.
C1_Witness ==
    /\ ReportReady
    /\ \E i, j \in DOMAIN local_stage1[1].questions :
          /\ local_stage1[1].questions[i].revision_outcome = "improved"
          /\ local_stage1[1].questions[j].revision_outcome = "worsened"

\* C2: in every Stage-1 report the three counters add up to max_score, which
\* is the number of questions and of records; raw_score is correct_count; and
\* each counter counts the records of its kind.
C2_ScoreSummary ==
    ReportReady =>
        LET report == local_stage1[1]
            score == report.score_summary
            Right(r) == NonEmpty(r.final_answer) /\ r.is_correct
            Wrong(r) == NonEmpty(r.final_answer) /\ ~r.is_correct
            Blank(r) == r.final_answer = <<>>
            Number(Test(_)) ==
                CountWhere([i \in DOMAIN report.questions |->
                               Test(report.questions[i])])
        IN  /\ score.correct_count + score.incorrect_count
                   + score.unattempted_count = score.max_score
            /\ score.max_score = Len(questions)
            /\ score.max_score = Len(report.questions)
            /\ score.raw_score = score.correct_count
            /\ score.correct_count = Number(Right)
            /\ score.incorrect_count = Number(Wrong)
            /\ score.unattempted_count = Number(Blank)

\* A report of two questions, one correct and one unattempted.
C2_Witness ==
    /\ ReportReady
    /\ local_stage1[1].score_summary.max_score = 2
    /\ local_stage1[1].score_summary.correct_count = 1
    /\ local_stage1[1].score_summary.unattempted_count = 1

\* C3: whatever judge calls fail, a submit run gets through Stage 1 with one
\* record per question in question order; each question is judged at most
\* once; a failed call's verdict is the fallback comparison and every other
\* verdict is the one its own response gives.
C3_JudgeFailuresIsolated ==
    /\ (pc = "idle" /\ RunStarted) => ReportReady
    /\ ReportReady =>
          /\ Len(local_stage1[1].questions) = Len(questions)
          /\ \A i \in DOMAIN questions :
                local_stage1[1].questions[i].question_id = questions[i].question_id
    /\ \A i \in DOMAIN questions_data :
          LET r == questions_data[i]
              calls == JudgeEventsOf(r.question_id)
          IN  /\ Cardinality(calls) <= 1
              /\ \A k \in calls :
                    r.is_correct =
                        IF call_log[k].outcome.raises
                        THEN Lower(Strip(r.final_answer)) = Lower(Strip(r.correct_answer))
                        ELSE Contains(Upper(Strip(call_log[k].outcome.text)), CORRECT)

\* A report of two questions: the call for the first failed and its answer
\* does not match; the call for the second succeeded and it is correct.
C3_Witness ==
    /\ ReportReady
    /\ Len(questions_data) = 2
    /\ \E k \in JudgeEventsOf(questions_data[1].question_id) :
          call_log[k].outcome.raises
    /\ ~questions_data[1].is_correct
    /\ \E k \in JudgeEventsOf(questions_data[2].question_id) :
          ~call_log[k].outcome.raises
    /\ questions_data[2].is_correct

\* The judge has been applied to the probe's arguments.
Judged == probe.result # <<>>

\* C4: without a credential, or when the call raises, the verdict is the
\* equality of the two answers trimmed and lower-cased: "1/2" against "1/2"
\* is true, "0.5" against "1/2" is false; without a credential no call is made.
C4_FallbackComparison ==
    (Judged /\ (~api_key \/ probe.outcome.raises)) =>
        /\ probe.result[1].verdict =
               (Lower(Strip(probe.student)) = Lower(Strip(probe.correct)))
        /\ (probe.student = Half /\ probe.correct = Half) => probe.result[1].verdict
        /\ (probe.student = ZeroPointFive /\ probe.correct = Half) =>
               ~probe.result[1].verdict
        /\ ~api_key => ~probe.result[1].called

\* A failed call on answers that differ in case and surrounding whitespace.
C4_Witness ==
    /\ Judged
    /\ api_key /\ probe.outcome.raises
    /\ probe.student = <<"\t", "x", " ">> /\ probe.correct = <<"X">>
    /\ probe.result[1].verdict

\* C5: with the credential and a successful call the verdict is true iff
\* CORRECT occurs in the trimmed, upper-cased response.
C5_ResponseVerdict ==
    (Judged /\ api_key /\ ~probe.outcome.raises) =>
        /\ probe.result[1].verdict =
               (\E i \in 0..Len(Strip(probe.outcome.text)) :
                   /\ i + Len(CORRECT) <= Len(Strip(probe.outcome.text))
                   /\ \A j \in 1..Len(CORRECT) :
                         UpperChar(Strip(probe.outcome.text)[i + j]) = CORRECT[j])
        /\ probe.outcome.text = CORRECT => probe.result[1].verdict
        /\ probe.outcome.text = <<"W", "R", "O", "N", "G">> =>
               ~probe.result[1].verdict

\* A lower-case response with whitespace around it, judged true.
C5_Witness ==
    /\ Judged
    /\ api_key /\ ~probe.outcome.raises
    /\ probe.outcome.text = <<" ">> \o Lower(CORRECT) \o <<"\n">>
    /\ probe.result[1].verdict

\* C6: a question whose final_answer is empty or absent, typed work or not,
\* gets is_correct = FALSE, is counted as unattempted, and no judge call is
\* made for it.
C6_EmptyAnswerUnattempted ==
    LET Blank(r) == r.final_answer = <<>>
        Blanks(records) ==
            CountWhere([i \in DOMAIN records |-> Blank(records[i])])
    IN  /\ \A i \in DOMAIN questions_data :
              Blank(questions_data[i]) =>
                  /\ ~questions_data[i].is_correct
                  /\ JudgeEventsOf(questions_data[i].question_id) = {}
        /\ counts.unattempted_count = Blanks(questions_data)
        /\ ReportReady =>
              local_stage1[1].score_summary.unattempted_count
                  = Blanks(local_stage1[1].questions)

\* With the credential present, a report with a question for which only
\* work was typed, next to a question that was answered and judged.
C6_Witness ==
    /\ ReportReady /\ api_key
    /\ \E i, j \in DOMAIN local_stage1[1].questions :
          /\ local_stage1[1].questions[i].final_answer = <<>>
          /\ local_stage1[1].questions[i].typed_work_provided
          /\ local_stage1[1].questions[j].final_answer # <<>>
          /\ JudgeEventsOf(local_stage1[1].questions[j].question_id) # {}

\* C7: when Stage 3 returns no result (no credential, a response that is
\* not JSON, a failed call), the submit handler writes no report file, stores
\* no report, leaves the page on "submit" and shows the failure message.
C7_NoResultPersistsNothing ==
    [][(pc = "stage3" /\ pc' = "idle" /\ local_stage3'[1].error # "none") =>
           /\ page = "submit" /\ page' = "submit"
           /\ notice' = "submit_failed"
           /\ report_files' = report_files
           /\ stored' = stored]_vars

\* A submission ended by a response that was not JSON.
C7_Witness ==
    /\ RunEnded
    /\ local_stage3[1].error = "bad_json"
    /\ page = "submit" /\ notice = "submit_failed"
    /\ final_report = <<>> /\ report_files = {}

\* The stage3.v1 shape of the specification: the four top-level members and
\* the members of report_meta.
ConformsStage3(v) ==
    /\ v.kind = "object"
    /\ {"schema_version", "report_meta", "priority_concepts", "video_requests"}
           \subseteq DOMAIN v.fields
    /\ v.fields.schema_version.kind = "string"
    /\ v.fields.schema_version.s = "stage3.v1"
    /\ v.fields.report_meta.kind = "object"
    /\ {"report_id", "source_stage2_report_id", "generated_at_iso", "producer"}
           \subseteq DOMAIN v.fields.report_meta.fields
    /\ v.fields.priority_concepts.kind = "list"
    /\ v.fields.video_requests.kind = "list"

\* C8: a Stage-3 response that is valid JSON but not of the stage3.v1 shape
\* ends the submission as a failure: nothing stored, no file, the failure
\* message, the page still "submit", no unhandled fault.
C8_SchemaViolationIsFailure ==
    (RunEnded /\ local_stage3[1].error = "none"
              /\ ~ConformsStage3(local_stage3[1].result)) =>
        /\ page = "submit"
        /\ notice = "submit_failed"
        /\ final_report = <<>>
        /\ report_files = {}

\* C9: after a submission whose Stage 3 returned no result, the session
\* holds the Stage-1 and Stage-2 reports of that submission, and the page is
\* still "submit".
C9_ReportsKeptAfterFailure ==
    (RunEnded /\ local_stage3[1].result.kind = "null") =>
        /\ page = "submit"
        /\ stage1_report = local_stage1
        /\ stage2_report = local_stage2

\* The positions of the events of one kind in the log of a submit run.
EventsOf(call) == { k \in DOMAIN call_log : call_log[k].call = call }

\* C10: in a submit run every judge and transcription call comes before the
\* end of Stage 1, which comes before the end of Stage 2, which comes before
\* the Stage-3 call; Stage 2 has the report of all questions as its input,
\* and Stage 3 runs on the two finished reports.
C10_StagesInOrder ==
    /\ \A k \in EventsOf("judge") \cup EventsOf("ocr") :
          \A m \in EventsOf("stage1_done") : k < m
    /\ \A k \in EventsOf("stage1_done") : \A m \in EventsOf("stage2_done") : k < m
    /\ \A k \in EventsOf("stage2_done") : \A m \in EventsOf("stage3_call") : k < m
    /\ EventsOf("stage3_call") # {} => EventsOf("stage2_done") # {}
    /\ EventsOf("stage2_done") # {} => EventsOf("stage1_done") # {}
    /\ local_stage2 # <<>> =>
          /\ ReportReady
          /\ Len(local_stage1[1].questions) = Len(questions)
          /\ \A i \in DOMAIN questions :
                LET q_id == questions[i].question_id
                    answered == q_id \in DOMAIN responses
                                  /\ responses[q_id].final_answer # <<>>
                IN  (api_key /\ answered) => JudgeEventsOf(q_id) # {}
          /\ local_stage2[1] = generate_stage2_report(local_stage1[1])
          /\ local_stage2[1].source_stage1_report_id = local_stage1[1].report_id
    /\ local_stage3 # <<>> => (ReportReady /\ local_stage2 # <<>>)

\* A submission of two questions with a transcription call, a judge call and
\* the Stage-3 call.
C10_Witness ==
    /\ RunEnded
    /\ Len(questions) = 2
    /\ EventsOf("ocr") # {} /\ EventsOf("judge") # {}
    /\ \E k \in EventsOf("ocr") : call_log[k].q = questions[2].question_id
    /\ EventsOf("stage3_call") # {}

\* C11: once process_student_work has returned for a question with an
\* uploaded image, the file temp_<question_id>.jpg it created is gone,
\* whether the calls succeeded or failed.
C11_TempFileRemoved ==
    \A i \in DOMAIN questions_data :
        questions_data[i].handwritten_uploaded =>
            questions_data[i].question_id \notin temp_files

\* process_student_work has been applied to the probe's arguments and the
\* transcription was entered: an image is there and so is the credential.
Transcribed == probe.result # <<>> /\ probe.uploaded /\ api_key

\* C12: when a step of the transcription fails (decoding, writing or removing
\* the temporary file, the upload, the model call), process_student_work
\* returns without raising, with handwritten_work_ocr empty and combined_work
\* the typed work.
C12_TranscriptionFailureContained ==
    (Transcribed /\ probe.outcome.fail_at # "none") =>
        /\ ~probe.result[1].raised
        /\ probe.result[1].handwritten_work_ocr = <<>>
        /\ probe.result[1].combined_work = probe.typed_work

\* The answer stored for question q_id in a table of responses.
StoredAnswer(resp, q_id) == Get(resp, q_id, EmptyResponse).final_answer

\* C13: within one quiz, first_attempt_times[q] is written when the first
\* non-empty answer to q is entered and never changes afterwards;
\* option_changes[q] becomes 0 at that first answer and grows by exactly 1
\* in each later step that changes the stored answer; a step that does not
\* change the answer of q (a revisit, typed work, an upload) changes neither.
C13_AttemptTables ==
    [][\A q \in QIds :
          LET old == StoredAnswer(responses, q)
              new == StoredAnswer(responses', q)
          IN  /\ q \in DOMAIN first_attempt_times =>
                    /\ q \in DOMAIN first_attempt_times'
                    /\ first_attempt_times'[q] = first_attempt_times[q]
              /\ (q \notin DOMAIN first_attempt_times
                     /\ q \in DOMAIN first_attempt_times') =>
                    (old = <<>> /\ new # <<>>)
              /\ (new # old /\ old = <<>>) =>
                    /\ q \in DOMAIN first_attempt_times'
                    /\ q \in DOMAIN option_changes'
                    /\ option_changes'[q] = 0
              /\ (new # old /\ old # <<>>) =>
                    /\ new # <<>>
                    /\ option_changes'[q] = option_changes[q] + 1
              /\ new = old =>
                    /\ (q \in DOMAIN option_changes') = (q \in DOMAIN option_changes)
                    /\ (q \in DOMAIN first_attempt_times')
                           = (q \in DOMAIN first_attempt_times)
                    /\ q \in DOMAIN option_changes =>
                           option_changes'[q] = option_changes[q]]_vars

\* A question first answered at time 0 whose answer was changed once, with
\* work typed and an image uploaded for it, looked at again at time 1.
C13_Witness ==
    /\ page = "quiz" /\ clock = 1
    /\ \E q \in DOMAIN option_changes :
          /\ option_changes[q] = 1
          /\ first_attempt_times[q] = 0
          /\ responses[q].typed_work # <<>>
          /\ q \in uploaded_files
          /\ q = CurrentQId

\* generate_stage2_report has been applied to the probe's report.
Stage2Done == probe.first # <<>>

\* A fraction lies in [0, 1].
InUnit(x) == x.den > 0 /\ 0 <= x.num /\ x.num <= x.den

\* C14: the unrounded overthinking_index and impulsivity_index lie in [0, 1];
\* overthinking_index is 0 when no question is easy and impulsivity_index is
\* 0 when no question is attempted.
C14_IndexBounds ==
    Stage2Done =>
        LET qs == probe.stage1.questions
            report == probe.first[1].report
        IN  /\ InUnit(report.overthinking_index)
            /\ InUnit(report.impulsivity_index)
            /\ (\A i \in DOMAIN qs : qs[i].difficulty # "easy") =>
                   report.overthinking_index.num = 0
            /\ (\A i \in DOMAIN qs : qs[i].final_answer = <<>>) =>
                   report.impulsivity_index.num = 0

\* A report for which both indices lie strictly between 0 and 1.
C14_Witness ==
    /\ Stage2Done
    /\ 0 < probe.first[1].report.overthinking_index.num
    /\ probe.first[1].report.overthinking_index.num
           < probe.first[1].report.overthinking_index.den
    /\ 0 < probe.first[1].report.impulsivity_index.num
    /\ probe.first[1].report.impulsivity_index.num
           < probe.first[1].report.impulsivity_index.den

\* C15: for every concept of the Stage-2 report, accuracy, time_score,
\* impulsivity_score and work_quality / 10 lie in [0, 1], work_quality in
\* 1..10, and concept_confidence = 0.4 * accuracy + 0.2 * time_score
\* + 0.2 * impulsivity_score + 0.2 * work_quality / 10 lies in [0, 1].
C15_ConfidenceBounds ==
    Stage2Done =>
        \A i \in DOMAIN probe.first[1].report.concepts :
            LET c == probe.first[1].report.concepts[i]
                a == c.accuracy
                t == c.time_score
                m == c.impulsivity_score
                v == c.concept_confidence
            IN  /\ InUnit(a) /\ InUnit(t) /\ InUnit(m) /\ InUnit(c.work_score)
                /\ c.work_quality \in 1..10
                /\ c.work_score.num * 10 = c.work_quality * c.work_score.den
                /\ InUnit(v)
                /\ 100 * v.num * a.den * t.den * m.den
                       = v.den * ( 40 * a.num * t.den * m.den
                                 + 20 * t.num * a.den * m.den
                                 + 20 * m.num * a.den * t.den
                                 + 2 * c.work_quality * a.den * t.den * m.den )

\* A report with a concept whose average time is far beyond 300 seconds and
\* a concept for which no time and no latency were recorded.
C15_Witness ==
    /\ Stage2Done
    /\ \E i, j \in DOMAIN probe.first[1].report.concepts :
          /\ probe.first[1].report.concepts[i].time_score.num = 0
          /\ probe.first[1].report.concepts[j].time_score = [num |-> 1, den |-> 1]
          /\ probe.first[1].report.concepts[j].impulsivity_score
                 = [num |-> 1, den |-> 2]

C17_StoreFailureStartsNothing ==
    [][(quizzes_started' = quizzes_started + 1 /\ questions' = <<>>) =>
           /\ page = "home" /\ page' = "home"
           /\ pc' = "idle" /\ notice' = "load_failed"
           /\ UNCHANGED <<start_time, responses, question_start_times,
                          first_attempt_times, option_changes,
                          current_question_idx>>]_vars

\* START QUIZ has failed once and nothing was started.
C17_Witness ==
    /\ quizzes_started = 1
    /\ questions = <<>> /\ notice = "load_failed"
    /\ page = "home" /\ start_time = NoTime

\* C18: for a valid JSON payload x and any answer_type,
\* extract(json_encode(extract(x))) = extract(x).
C18_ExtractionIdempotent ==
    (/\ probe.done = 2
     /\ probe.answer_json_str # <<>>
     /\ json_loads(probe.answer_json_str).ok)
    => probe.again = probe.first

\* A payload whose extracted text is itself the text of a JSON document has
\* gone through both extractions.
C18_Witness ==
    /\ probe.done = 2
    /\ json_loads(probe.answer_json_str).ok
    /\ ~probe.first.none
    /\ json_loads(probe.first.text).ok
    /\ json_loads(probe.first.text).value.t \in {"dict", "list"}
    /\ probe.again = probe.first

\* C19: when the call succeeds and the response is exactly INCORRECT,
\* check_answer_with_llm returns false.
C19_IncorrectIsFalse ==
    (/\ Judged
     /\ api_key /\ ~probe.outcome.raises
     /\ probe.outcome.text = <<"I", "N">> \o CORRECT)
    => ~probe.result[1].verdict

\* C20: every record of a shown question has time_spent_sec equal to the
\* time from its first display to the moment the report is generated, the
\* same end instant for all questions however long the service calls of the
\* other questions take; a question never shown has 0.
C20_TimeSpentEndsAtReportMoment ==
    (api_key /\ call_log # <<>>) =>
        \A i \in 1..Len(questions_data) :
            LET q == questions_data[i]
            IN  q.time_spent_sec =
                    IF q.question_id \in DOMAIN question_start_times
                    THEN report_now - question_start_times[q.question_id]
                    ELSE 0

\* C21: overthinking_index is the number of easy questions with
\* time_spent_sec > 120 divided by the number of all easy questions,
\* attempted or not, and 0 when no question is easy; three easy questions of
\* which exactly one exceeds 120 s give 1/3.
C21_OverthinkingIndex ==
    Stage2Done =>
        LET qs == probe.stage1.questions
            report == probe.first[1].report
            easy == { i \in DOMAIN qs : qs[i].difficulty = "easy" }
            over == { i \in easy : qs[i].time_spent_sec > 120 }
        IN  /\ easy = {} => report.overthinking_index = [num |-> 0, den |-> 1]
            /\ easy # {} =>
                  /\ report.overthinking_index.num * Cardinality(easy)
                        = Cardinality(over) * report.overthinking_index.den
                  /\ report.overthinking_index.den > 0
            /\ (Cardinality(easy) = 3 /\ Cardinality(over) = 1) =>
                  /\ report.overthinking_index = [num |-> 1, den |-> 3]
                  /\ report.overthinking_index_value = 33

\* Three easy questions: one unattempted at 130 s, one at exactly 120 s and
\* one at 0 s.
C21_Witness ==
    /\ Stage2Done
    /\ Len(probe.stage1.questions) = 3
    /\ \A i \in 1..3 : probe.stage1.questions[i].difficulty = "easy"
    /\ \E i, j, k \in 1..3 :
          /\ probe.stage1.questions[i].time_spent_sec = 130
          /\ probe.stage1.questions[i].final_answer = <<>>
          /\ probe.stage1.questions[j].time_spent_sec = 120
          /\ probe.stage1.questions[k].time_spent_sec = 0
    /\ probe.first[1].report.overthinking_index = [num |-> 1, den |-> 3]

\* C22: impulsivity_index is the number of attempted questions whose
\* first_attempt_latency_sec lies strictly between 0 and 20 divided by the
\* number of attempted questions, and 0 when nothing is attempted.
C22_ImpulsivityIndex ==
    Stage2Done =>
        LET qs == probe.stage1.questions
            report == probe.first[1].report
            tried == { i \in DOMAIN qs : qs[i].final_answer # <<>> }
            quick == { i \in tried : /\ 0 < qs[i].first_attempt_latency_sec
                                     /\ qs[i].first_attempt_latency_sec < 20 }
        IN  /\ tried = {} => report.impulsivity_index = [num |-> 0, den |-> 1]
            /\ tried # {} =>
                  /\ report.impulsivity_index.num * Cardinality(tried)
                        = Cardinality(quick) * report.impulsivity_index.den
                  /\ report.impulsivity_index.den > 0

\* An unattempted question, one answered after 5 s and one after exactly
\* 20 s: the index is 1/2.
C22_Witness ==
    /\ Stage2Done
    /\ Len(probe.stage1.questions) = 3
    /\ \E i, j, k \in 1..3 :
          /\ probe.stage1.questions[i].final_answer = <<>>
          /\ probe.stage1.questions[j].first_attempt_latency_sec = 5
          /\ probe.stage1.questions[k].first_attempt_latency_sec = 20
    /\ probe.first[1].report.impulsivity_index = [num |-> 1, den |-> 2]

\* C23: a concept is in the Stage-2 output iff an attempted question carries
\* its tag, and it is there once; its attempted is the number of attempted
\* questions with the tag, 0 <= correct <= attempted, evidence_count <=
\* attempted; without the unattempted questions the report has the same
\* concept entries (in some order), and a question with several tags counts
\* for each of them.
C23_ConceptAggregates ==
    Stage2Done =>
        LET qs == probe.stage1.questions
            concepts == probe.first[1].report.concepts
            Tagged(tag) == { i \in DOMAIN qs :
                               /\ qs[i].final_answer # <<>>
                               /\ \E t \in DOMAIN qs[i].concept_tags :
                                     qs[i].concept_tags[t] = tag }
            AllTags == UNION { { qs[i].concept_tags[t] :
                                   t \in DOMAIN qs[i].concept_tags } :
                               i \in DOMAIN qs }
            Tried(q) == q.final_answer # <<>>
        IN  /\ \A tag \in AllTags :
                  (Tagged(tag) # {}) <=>
                      (\E c \in DOMAIN concepts : concepts[c].concept_id = tag)
            /\ \A c, d \in DOMAIN concepts :
                  concepts[c].concept_id = concepts[d].concept_id => c = d
            /\ \A c \in DOMAIN concepts :
                  /\ concepts[c].concept_id \in AllTags
                  /\ concepts[c].attempted
                        = Cardinality(Tagged(concepts[c].concept_id))
                  /\ 0 <= concepts[c].correct
                  /\ concepts[c].correct <= concepts[c].attempted
                  /\ concepts[c].correct
                        = Cardinality({ i \in Tagged(concepts[c].concept_id) :
                                          qs[i].is_correct })
                  /\ concepts[c].evidence_count <= concepts[c].attempted
            /\ LET alone == generate_stage2_report(
                                 [probe.stage1 EXCEPT
                                    !.questions = SelectSeq(qs, Tried)]).concepts
               IN  { concepts[c] : c \in DOMAIN concepts }
                      = { alone[c] : c \in DOMAIN alone }

\* Two attempted questions with two tags each and an unattempted one: both
\* concepts are listed with attempted = 2.
C23_Witness ==
    /\ Stage2Done
    /\ Len(probe.stage1.questions) = 3
    /\ \E i \in 1..3 : /\ probe.stage1.questions[i].final_answer = <<>>
                       /\ probe.stage1.questions[i].time_spent_sec > 0
    /\ Len(probe.first[1].report.concepts) = 2
    /\ \A c \in 1..2 : probe.first[1].report.concepts[c].attempted = 2

\* C24: START QUIZ after a previous quiz leaves no per-question state of the
\* previous quiz: responses, question start times (but for the question now
\* shown), first-attempt times, option-change counts and uploaded images are
\* all empty when the new quiz begins.
C24_NewQuizStartsClean ==
    [][(quizzes_started' = quizzes_started + 1 /\ questions' # <<>>) =>
           /\ responses' = <<>>
           /\ DOMAIN question_start_times' = {questions'[1].question_id}
           /\ first_attempt_times' = <<>>
           /\ option_changes' = <<>>
           /\ uploaded_files' = {}]_vars

\* C25: the unattempted count shown on the submit page equals the
\* unattempted_count of the Stage-1 score summary for the same session state.
C25_DisplayedCountsAgree ==
    local_stage1 # <<>> =>
        local_stage1[1].score_summary.unattempted_count = DisplayedUnattempted

C27_ResultsHoldReports ==
    [][/\ page' \in {"home", "quiz", "submit", "results"}
       /\ page' = "results" =>
             /\ final_report' # <<>> /\ Truthy(final_report'[1])
             /\ stage1_report' # <<>> /\ stage2_report' # <<>>
             /\ stage2_report'[1].source_stage1_report_id
                    = stage1_report'[1].report_id
             /\ stage1_report'[1].questions = questions_data'
             /\ Len(stage1_report'[1].questions) = Len(questions')
             /\ \A i \in DOMAIN questions' :
                    stage1_report'[1].questions[i].question_id
                        = questions'[i].question_id
             /\ report_file' # <<>> /\ report_file'[1] \in report_files'
       /\ (page' = "results" /\ page # "results") =>
             /\ page = "submit" /\ pc = "stage3"
             /\ local_stage3'[1].called
             /\ local_stage3'[1].error = "none"
             /\ final_report' = <<local_stage3'[1].result>>
             /\ stage1_report' = local_stage1
             /\ stage2_report' = local_stage2]_vars

\* The results page of a two-question quiz, START QUIZ having been pressed
\* twice in the session.
C27_Witness ==
    /\ page = "results"
    /\ quizzes_started = 2
    /\ report_file # <<>>
    /\ Len(stage1_report[1].questions) = 2

\* C28: whenever the quiz page shows a non-empty question list,
\* 0 <= current_question_idx < number of questions, whatever buttons were
\* pressed before, a shorter quiz after a longer one included; the submit
\* page is entered only by Finish Quiz on the last question.
C28_IndexInRange ==
    [][/\ (page' = "quiz" /\ questions' # <<>>) =>
             /\ 0 <= current_question_idx'
             /\ current_question_idx' < Len(questions')
       /\ (page' = "submit" /\ page # "submit") =>
             /\ page = "quiz"
             /\ current_question_idx = Len(questions) - 1
             /\ UNCHANGED <<questions, current_question_idx>>]_vars

\* A one-question quiz started after a two-question quiz was submitted.
C28_Witness ==
    /\ page = "quiz"
    /\ quizzes_started = 2
    /\ Len(questions) = 1 /\ current_question_idx = 0
    /\ stage1_report # <<>>
    /\ Len(stage1_report[1].questions) = 2

\* The row of the probe has been handled.
RowDone == probe.done = 1

\* C29: extract_answer_from_json takes, from a JSON object, key answer, else
\* value, else (for answer_type integer or float only) the first present of
\* number, numerical_value, result; from a non-empty list the first element;
\* a scalar itself; and returns malformed JSON unchanged.  A row is kept iff
\* the extracted answer is non-empty, and every question
\* get_questions_from_db returns has a non-empty correct_answer.
C29_ExtractionPolicy ==
    RowDone =>
        LET text == probe.row.final_answer_json
            type == probe.row.answer_type
            parsed == json_loads(text)
            doc == parsed.value
            Has(k) == \E i \in DOMAIN doc.v : doc.v[i][1] = k
            At(k) == doc.v[CHOOSE i \in DOMAIN doc.v : doc.v[i][1] = k][2]
            numeric == type \in {"integer", "float"}
            got == probe.first
        IN  /\ (text # <<>> /\ ~parsed.ok) => got = Answer(text)
            /\ (text # <<>> /\ parsed.ok) =>
                  /\ ~got.none
                  /\ doc.t = "dict" =>
                        /\ Has(Keys.answer) => got.text = PyStr(At(Keys.answer))
                        /\ (~Has(Keys.answer) /\ Has(Keys.value)) =>
                               got.text = PyStr(At(Keys.value))
                        /\ (~Has(Keys.answer) /\ ~Has(Keys.value) /\ numeric) =>
                               /\ Has(Keys.number) =>
                                      got.text = PyStr(At(Keys.number))
                               /\ (~Has(Keys.number) /\ Has(Keys.numerical_value)) =>
                                      got.text = PyStr(At(Keys.numerical_value))
                               /\ (/\ ~Has(Keys.number)
                                   /\ ~Has(Keys.numerical_value)
                                   /\ Has(Keys.result)) =>
                                      got.text = PyStr(At(Keys.result))
                        /\ (~Has(Keys.answer) /\ ~Has(Keys.value) /\ ~numeric
                            /\ Has(Keys.number)) =>
                               got.text # PyStr(At(Keys.number))
                  /\ (doc.t = "list" /\ doc.v # <<>>) => got.text = PyStr(doc.v[1])
                  /\ doc.t \in {"null", "bool", "int", "str"} =>
                        got.text = PyStr(doc)
            /\ probe.kept <=> (~got.none /\ got.text # <<>>)
            /\ probe.kept => /\ probe.question # <<>>
                             /\ probe.question[1].correct_answer = got.text
                             /\ probe.question[1].correct_answer # <<>>
            /\ ~probe.kept => probe.question = <<>>
            /\ \A topic \in Topics :
                  \A qs \in get_questions_from_db(topic, MaxQuestions) :
                      \A i \in DOMAIN qs :
                          /\ qs[i].correct_answer # <<>>
                          /\ qs[i].question_id
                                 \notin {"OLY_3", "OLY_4", "OLY_5", "CALC_2"}

\* An object holding result and number, read as an integer: number is taken
\* and the row is kept.
C29_Witness ==
    /\ RowDone
    /\ probe.row.answer_type = "integer"
    /\ probe.row.final_answer_json =
           json_dumps(PyDict(<< <<Keys.result, PyInt(7)>>,
                                <<Keys.number, PyInt(5)>> >>))
    /\ probe.first = Answer(<<"5">>)
    /\ probe.kept

\* C30: an olympiad row gets difficulty easy when its solution text is
\* shorter than 200, hard when it is longer than 500 and medium otherwise,
\* whatever the length, 0 included.
C30_DifficultyByLength ==
    (RowDone /\ probe.kept /\ probe.row.has_solution) =>
        probe.question[1].difficulty =
            IF probe.row.sol_len < 200 THEN "easy"
            ELSE IF probe.row.sol_len > 500 THEN "hard" ELSE "medium"

=============================================================================
